---- MODULE Spec2Model ----
(***************************************************************************)
(* Model of the response ingestion pipeline of ollama-task-master          *)
(* (ai-services.js): the model gateway with its retry policy               *)
(* (callClaude / handleStreamingRequest / generateSubtasks), the stream    *)
(* assembler in its two delivery modes, and the response normalizer        *)
(* (processOllamaResponse), the structured extractors (the extraction      *)
(* ladder of handleStreamingRequest and parseSubtasksFromText), and the    *)
(* dependency graph manager (addDependency).                               *)
(*                                                                         *)
(* A text is a sequence of one-character strings; the extractors read it   *)
(* as a sequence of lexemes.                                               *)
(***************************************************************************)
EXTENDS Integers, Sequences, FiniteSets, TLC

VARIABLES
    op,             \* gateway operation invoked: "none", "callClaude", "generateSubtasks"
    pc,             \* position of the invocation
    retryCount,     \* callClaude's retryCount parameter
    requests,       \* number of fetch() calls issued so far
    inflight,       \* completion requests issued and not yet failed / fully consumed
    waits,          \* backoff waits started so far (milliseconds, in order)
    elapsed,        \* backoff timers that have fired
    indicators,     \* loading indicators started and not yet stopped
    timers,         \* interval timers set and not yet cleared
    streamingInterval, \* local handle: TRUE when it holds a timer
    dotCount,       \* counter of the progress timer callback
    mode,           \* body delivery mode of the current response
    pending,        \* chunks of the current response body not yet delivered
    delivered,      \* chunks of the current response body delivered so far
    chunkBuf,       \* local `chunks` of the buffered mode
    responseText,   \* local accumulator responseText
    outcomes,       \* outcome of every finished attempt, in order
    processedText,  \* processOllamaResponse(responseText) of the returning attempt
    surfaced,       \* what the operation threw to its caller
    abandoned,      \* responseText of every attempt that threw, in order
    dotsShown,      \* dots of the progress line last written to the terminal
    sObjs,          \* stream assembly: the objects among the lines of the body, in order
    sRemaining,     \* stream assembly: bytes not yet delivered
    sPc,            \* stream assembly: "stream" or "end"
    readerText,     \* stream assembly: responseText of the incremental-reader mode
    bufChunks,      \* stream assembly: chunks collected by the buffered mode
    bufferedText,   \* stream assembly: responseText of the buffered mode
    normInput,      \* normalizer: the input text
    normStage,      \* normalizer: "raw", "once", "twice"
    normText,       \* normalizer: the text after normStage applications
    exText,         \* extraction: the normalized text handed to the extractor
    exCount,        \* extraction: numTasks / expectedCount
    exStart,        \* extraction: startId of parseSubtasksFromText
    exParent,       \* extraction: parentTaskId of parseSubtasksFromText
    exPc,           \* extraction: "input", "document" or "subtasks" (which extractor ran)
    exResult,       \* extraction: the value returned
    exLog,          \* extraction: the log calls made, in order
    tasks,          \* dependency graph: ids of the existing tasks
    deps,           \* dependency graph: the dependency list of every task
    lastCall,       \* dependency graph: the last operation and its arguments
    lastResult,     \* dependency graph: how the last operation ended
    rsPc,           \* research expansion: position in generateSubtasksWithPerplexity
    researchLoadingIndicator,   \* research expansion: "none", "started" or "stopped"
    rsLoadingIndicator, \* research expansion: the generation indicator, likewise
    rsStreamingInterval,    \* research expansion: the progress timer is set
    rsMode,         \* research expansion: what the response body offers
    rsBody,         \* research expansion: the chunks of the response body
    rsPending,      \* research expansion: the chunks not yet read
    rsResponseText, \* research expansion: the text assembled so far
    rsExtractInput, \* research expansion: the text handed to parseSubtasksFromText
    rsResult,       \* research expansion: the value returned
    rsThrown,       \* research expansion: the error thrown to the caller
    apiKey,         \* shared client: process.env.PERPLEXITY_API_KEY ("" when unset)
    perplexity,     \* shared client: the module variable, 0 for null, else an instance
    clients,        \* shared client: every instance constructed so far, in order
    clientCalls     \* shared client: how every getPerplexityClient call ended, in order

gatewayVars == <<op, pc, retryCount, requests, inflight, waits, elapsed, indicators, timers,
                 streamingInterval, dotCount, mode, pending, delivered, chunkBuf,
                 responseText, outcomes, processedText, surfaced, abandoned,
                   dotsShown>>
streamVars == <<sObjs, sRemaining, sPc, readerText, bufChunks, bufferedText>>
normVars == <<normInput, normStage, normText>>
extractVars == <<exText, exCount, exStart, exParent, exPc, exResult, exLog>>
graphVars == <<tasks, deps, lastCall, lastResult>>
researchVars ==
    <<rsPc, researchLoadingIndicator, rsLoadingIndicator, rsStreamingInterval, rsMode,
      rsBody, rsPending, rsResponseText, rsExtractInput, rsResult, rsThrown>>
clientVars == <<apiKey, perplexity, clients, clientCalls>>
vars == <<gatewayVars, streamVars, normVars, extractVars, graphVars, researchVars, clientVars>>

ClientIdle ==
    /\ apiKey = <<>>
    /\ perplexity = 0
    /\ clients = <<>>
    /\ clientCalls = <<>>

ResearchIdle ==
    /\ rsPc = "idle"
    /\ researchLoadingIndicator = "none"
    /\ rsLoadingIndicator = "none"
    /\ rsStreamingInterval = FALSE
    /\ rsMode = "none"
    /\ rsBody = <<>>
    /\ rsPending = <<>>
    /\ rsResponseText = <<>>
    /\ rsExtractInput = <<>>
    /\ rsResult = [t |-> "undefined"]
    /\ rsThrown = [code |-> "none"]

ExtractIdle ==
    /\ exText = <<>>
    /\ exCount = 0
    /\ exStart = 0
    /\ exParent = 0
    /\ exPc = "idle"
    /\ exResult = [t |-> "undefined"]
    /\ exLog = <<>>

GraphIdle ==
    /\ tasks = {}
    /\ deps = <<>>
    /\ lastCall = [name |-> "none"]
    /\ lastResult = "none"

(***************************************************************************)
(* Bounds of the model.                                                    *)
(***************************************************************************)
MaxObjs == 2
MaxNormLen == 4
MaxItems == 2

(***************************************************************************)
(* Program constants.                                                      *)
(***************************************************************************)
MaxRetries == 2
BackoffStepMs == 5000
DotModulus == 4

(***************************************************************************)
(* Characters and text helpers.                                            *)
(***************************************************************************)
BS == "\\"
DQ == "\""
SQ == "'"
NL == "\n"
SP == " "

UpperAlpha == <<"A","B","C","D","E","F","G","H","I","J","K","L","M",
                "N","O","P","Q","R","S","T","U","V","W","X","Y","Z">>
LowerAlpha == <<"a","b","c","d","e","f","g","h","i","j","k","l","m",
                "n","o","p","q","r","s","t","u","v","w","x","y","z">>

LowerChar(c) ==
    IF \E i \in 1..26 : UpperAlpha[i] = c
    THEN LowerAlpha[CHOOSE i \in 1..26 : UpperAlpha[i] = c]
    ELSE c

toLowerCase(s) == [i \in 1..Len(s) |-> LowerChar(s[i])]

includes(s, sub) ==
    \E i \in 0..(Len(s) - Len(sub)) : SubSeq(s, i + 1, i + Len(sub)) = sub

RECURSIVE Concat(_)
Concat(ss) == IF ss = <<>> THEN <<>> ELSE Head(ss) \o Concat(Tail(ss))

DigitChars == <<"0","1","2","3","4","5","6","7","8","9">>

RECURSIVE NumText(_)
NumText(n) ==
    IF n < 10 THEN <<DigitChars[n + 1]>>
    ELSE NumText(n \div 10) \o <<DigitChars[(n % 10) + 1]>>

TxtTimeout == <<"t","i","m","e","o","u","t">>
TxtNetwork == <<"n","e","t","w","o","r","k">>
TxtHttpError == <<"H","T","T","P"," ","e","r","r","o","r"," ">>

AllTexts(A, n) == UNION {[1..k -> A] : k \in 0..n}

(***************************************************************************)
(* Response Normalizer: processOllamaResponse, three global regex          *)
(* replacements applied in order.                                          *)
(***************************************************************************)

(* The characters of the negated class in /\\(?=[^"ntbfr\/])/ .             *)
RecognizedEscapes == {DQ, "n", "t", "b", "f", "r", "/"}

(* text.replace(/\\'/g, "'") : every backslash-apostrophe pair, scanned     *)
(* left to right without overlap, becomes an apostrophe.                   *)
RECURSIVE UnescapeSingleQuotes(_)
UnescapeSingleQuotes(s) ==
    IF s = <<>> THEN <<>>
    ELSE IF Len(s) >= 2 /\ s[1] = BS /\ s[2] = SQ
         THEN <<SQ>> \o UnescapeSingleQuotes(SubSeq(s, 3, Len(s)))
         ELSE <<s[1]>> \o UnescapeSingleQuotes(Tail(s))

(* text.replace(/\\(?=[^"ntbfr\/])/g, "\\\\") : a backslash that is         *)
(* followed by some character outside the class is replaced by two         *)
(* backslashes; the lookahead consumes nothing, and a backslash that ends  *)
(* the text has no following character and does not match.                 *)
EscapeBackslashes(s) ==
    Concat([i \in 1..Len(s) |->
              IF s[i] = BS /\ i < Len(s) /\ s[i + 1] \notin RecognizedEscapes
              THEN <<BS, BS>>
              ELSE <<s[i]>>])

(* text.replace(/(?<!\\)\\"/g, '\\"') : a backslash-quote pair that is not  *)
(* preceded by a backslash is replaced by the two characters backslash,    *)
(* quote.                                                                  *)
RECURSIVE FixQuoteEscapesFrom(_, _)
FixQuoteEscapesFrom(s, i) ==
    IF i > Len(s) THEN <<>>
    ELSE IF s[i] = BS /\ i < Len(s) /\ s[i + 1] = DQ /\ (i = 1 \/ s[i - 1] # BS)
         THEN <<BS, DQ>> \o FixQuoteEscapesFrom(s, i + 2)
         ELSE <<s[i]>> \o FixQuoteEscapesFrom(s, i + 1)

FixQuoteEscapes(s) == FixQuoteEscapesFrom(s, 1)

processOllamaResponse(text) ==
    FixQuoteEscapes(EscapeBackslashes(UnescapeSingleQuotes(text)))

(***************************************************************************)
(* JSON.parse as a recognizer, on the texts the normalizer is checked on:  *)
(* a JSON string literal or an unsigned integer, no surrounding space.     *)
(***************************************************************************)
HexDigits == {"0","1","2","3","4","5","6","7","8","9",
              "a","b","c","d","e","f","A","B","C","D","E","F"}
SimpleEscapes == {DQ, BS, "/", "b", "f", "n", "r", "t"}
ControlChars == {NL, "\t", "\r"}

RECURSIVE ValidStringBody(_)
ValidStringBody(s) ==
    IF s = <<>> THEN TRUE
    ELSE IF s[1] = DQ \/ s[1] \in ControlChars THEN FALSE
    ELSE IF s[1] = BS
         THEN /\ Len(s) >= 2
              /\ \/ /\ s[2] \in SimpleEscapes
                    /\ ValidStringBody(SubSeq(s, 3, Len(s)))
                 \/ /\ s[2] = "u"
                    /\ Len(s) >= 6
                    /\ \A k \in 3..6 : s[k] \in HexDigits
                    /\ ValidStringBody(SubSeq(s, 7, Len(s)))
         ELSE ValidStringBody(Tail(s))

IsJSONString(x) ==
    /\ Len(x) >= 2
    /\ x[1] = DQ
    /\ x[Len(x)] = DQ
    /\ ValidStringBody(SubSeq(x, 2, Len(x) - 1))

IsJSONNumber(x) ==
    /\ Len(x) >= 1
    /\ \A i \in 1..Len(x) : \E d \in 1..10 : DigitChars[d] = x[i]
    /\ (Len(x) = 1 \/ x[1] # "0")

ParsesAsJSON(x) == IsJSONString(x) \/ IsJSONNumber(x)

(***************************************************************************)
(* Inputs of the normalizer: every text over a small alphabet up to        *)
(* MaxNormLen characters, and JSON string literals built from up to        *)
(* MaxItems plain characters and valid escapes.                            *)
(***************************************************************************)
NormAlphabet == {BS, DQ, SQ, "n", "u"}
JSONItems == { <<"n">>, <<SQ>>, <<BS, BS>>, <<BS, "n">>, <<BS, DQ>>,
               <<BS, "u", "0", "0", "4", "1">> }
JSONSamples ==
    { <<DQ>> \o Concat(items) \o <<DQ>> :
        items \in UNION {[1..k -> JSONItems] : k \in 0..MaxItems} }
NormInputs == AllTexts(NormAlphabet, MaxNormLen) \cup JSONSamples

NormIdle ==
    /\ normInput = <<>>
    /\ normStage = "raw"
    /\ normText = <<>>

(* processOllamaResponse applied to the input.                             *)
NormalizeOnce ==
    /\ normStage = "raw"
    /\ normText' = processOllamaResponse(normText)
    /\ normStage' = "once"
    /\ UNCHANGED normInput

(* processOllamaResponse applied to its own output.                        *)
NormalizeAgain ==
    /\ normStage = "once"
    /\ normText' = processOllamaResponse(normText)
    /\ normStage' = "twice"
    /\ UNCHANGED normInput

(***************************************************************************)
(* Stream assembly (handleStreamingRequest 272-349, generateSubtasks       *)
(* 582-656).  A response line is rendered as "{" content "}" : it stands   *)
(* for the object {"message":{"content":content}}, and "{}" for an object  *)
(* that carries no message content.  Any proper fragment of a line is not  *)
(* a JSON text.                                                            *)
(***************************************************************************)
ContentChars == {"a", "b", BS, SQ}
Whitespace == {SP, NL, "\t", "\r"}

(* String.prototype.split('\n')                                            *)
RECURSIVE SplitLines(_)
SplitLines(s) ==
    IF \E i \in 1..Len(s) : s[i] = NL
    THEN LET i == CHOOSE j \in 1..Len(s) :
                    s[j] = NL /\ \A k \in 1..(j - 1) : s[k] # NL
         IN <<SubSeq(s, 1, i - 1)>> \o SplitLines(SubSeq(s, i + 1, Len(s)))
    ELSE <<s>>

(* String.prototype.trim()                                                 *)
RECURSIVE Trim(_)
Trim(s) ==
    IF s = <<>> THEN s
    ELSE IF s[1] \in Whitespace THEN Trim(Tail(s))
    ELSE IF s[Len(s)] \in Whitespace THEN Trim(SubSeq(s, 1, Len(s) - 1))
    ELSE s

(* JSON.parse(line) followed by the test data.message && data.message.content *)
ParseLine(line) ==
    LET t == Trim(line) IN
    IF /\ Len(t) >= 2
       /\ t[1] = "{"
       /\ t[Len(t)] = "}"
       /\ \A i \in 2..(Len(t) - 1) : t[i] \in ContentChars
    THEN [ok |-> TRUE, content |-> SubSeq(t, 2, Len(t) - 1)]
    ELSE [ok |-> FALSE, content |-> <<>>]

(* The loop with the try around it instead of inside it: the first line    *)
(* that fails to parse ends it.                                            *)
RECURSIVE AppendLinesAborting(_, _)
AppendLinesAborting(text, lines) ==
    IF lines = <<>> THEN text
    ELSE LET line == Head(lines)
             p == ParseLine(line)
         IN IF Trim(line) = <<>> THEN AppendLinesAborting(text, Tail(lines))
            ELSE IF p.ok THEN AppendLinesAborting(text \o p.content, Tail(lines))
            ELSE text

(* for (const line of lines) { try { ... responseText += content } catch {} } *)
RECURSIVE AppendLines(_, _)
AppendLines(text, lines) ==
    IF lines = <<>> THEN text
    ELSE LET line == Head(lines)
             p == ParseLine(line)
         IN AppendLines(IF Trim(line) # <<>> /\ p.ok THEN text \o p.content ELSE text,
                        Tail(lines))

(* split('\n').filter(line => line.trim()) and the loop over the lines      *)
AppendText(text, s) == AppendLines(text, SplitLines(s))

(* Incremental-reader mode: each chunk is decoded, split and parsed alone.  *)
ReaderStep(text, chunk) == AppendText(text, chunk)

(* Buffered mode: Buffer.concat(chunks).toString(), then split and parse.   *)
BufferedFinish(text, chunks) == AppendText(text, Concat(chunks))

RenderObj(content) == <<"{">> \o content \o <<"}">> \o <<NL>>

RECURSIVE RenderBody(_)
RenderBody(objs) ==
    IF objs = <<>> THEN <<>> ELSE RenderObj(Head(objs)) \o RenderBody(Tail(objs))

(* The concatenation of the message.content of all objects, in order.       *)
ExpectedText(objs) == Concat(objs)

ObjContents == {<<>>, <<"a">>, <<"b">>}
StreamObjs == UNION {[1..k -> ObjContents] : k \in 0..MaxObjs}

(* Lines of a body that are no JSON object: plain text, and an object cut  *)
(* short.  A body holds its objects and at most one such line, anywhere.   *)
BadLines == {<<"a", NL>>, <<"{", NL>>}

InsertAt(seq, p, x) == SubSeq(seq, 1, p) \o <<x>> \o SubSeq(seq, p + 1, Len(seq))

WithBadLine(lines) ==
    {lines} \cup {InsertAt(lines, p, b) : p \in 0..Len(lines), b \in BadLines}

StreamBodies(objs) ==
    {Concat(l) : l \in WithBadLine([i \in 1..Len(objs) |-> RenderObj(objs[i])])}

StreamIdle ==
    /\ sObjs = <<>>
    /\ sRemaining = <<>>
    /\ sPc = "idle"
    /\ readerText = <<>>
    /\ bufChunks = <<>>
    /\ bufferedText = <<>>

(* The next chunk of the body arrives: reader.read() resolves with it in    *)
(* the reader mode, the 'data' event pushes it in the buffered mode.        *)
StreamDeliver ==
    /\ sPc = "stream"
    /\ \E k \in 1..Len(sRemaining) :
         LET chunk == SubSeq(sRemaining, 1, k) IN
         /\ readerText' = ReaderStep(readerText, chunk)
         /\ bufChunks' = Append(bufChunks, chunk)
         /\ sRemaining' = SubSeq(sRemaining, k + 1, Len(sRemaining))
    /\ UNCHANGED <<sObjs, sPc, bufferedText>>

(* The body ends: done in the reader mode, 'end' in the buffered mode.      *)
StreamEnd ==
    /\ sPc = "stream"
    /\ sRemaining = <<>>
    /\ bufferedText' = BufferedFinish(<<>>, bufChunks)
    /\ sPc' = "end"
    /\ UNCHANGED <<sObjs, sRemaining, readerText, bufChunks>>

(***************************************************************************)
(* JSON values and JSON.parse, for the two extractors.  The text handed to *)
(* an extractor is a sequence of lexemes: the punctuation of JSON, number  *)
(* and string literals, null, and "x" for a run of prose that is no JSON.  *)
(* No lexeme contains a brace or a bracket, so indexOf and lastIndexOf of  *)
(* a marker find the same place on lexemes as on characters.               *)
(*                                                                         *)
(* A value is a record tagged by t: "num" (n), "str" (s, a text), "null",  *)
(* "arr" (a, the elements; o, the named properties the code attaches),     *)
(* "obj" (o, a function from property names to values), and the two        *)
(* values JSON cannot write: "nan" and "undefined".                        *)
(***************************************************************************)
JNum(n) == [t |-> "num", n |-> n]
JStr(s) == [t |-> "str", s |-> s]
JNull == [t |-> "null"]
JNaN == [t |-> "nan"]
JUndefined == [t |-> "undefined"]
JArr(a) == [t |-> "arr", a |-> a, o |-> <<>>]
JObj(o) == [t |-> "obj", o |-> o]

(* Property names.                                                         *)
IdKey == <<"i","d">>
TitleKey == <<"t","i","t","l","e">>
DescriptionKey == <<"d","e","s","c","r","i","p","t","i","o","n">>
StatusKey == <<"s","t","a","t","u","s">>
DependenciesKey == <<"d","e","p","e","n","d","e","n","c","i","e","s">>
PriorityKey == <<"p","r","i","o","r","i","t","y">>
DetailsKey == <<"d","e","t","a","i","l","s">>
TestStrategyKey == <<"t","e","s","t","S","t","r","a","t","e","g","y">>
ParentTaskIdKey == <<"p","a","r","e","n","t","T","a","s","k","I","d">>
TasksKey == <<"t","a","s","k","s">>
MetadataKey == <<"m","e","t","a","d","a","t","a">>
ProjectNameKey == <<"p","r","o","j","e","c","t","N","a","m","e">>
TotalTasksKey == <<"t","o","t","a","l","T","a","s","k","s">>
SourceFileKey == <<"s","o","u","r","c","e","F","i","l","e">>
GeneratedAtKey == <<"g","e","n","e","r","a","t","e","d","A","t">>
NoteKey == <<"n","o","t","e">>

(* The literals of the inputs and the values they denote.                  *)
NumTable == {<<"1", 1>>, <<"2", 2>>, <<"7", 7>>, <<"9", 9>>}
StrTable ==
    { <<"\"id\"", <<"i","d">>>>,
      <<"\"dependencies\"", <<"d","e","p","e","n","d","e","n","c","i","e","s">>>>,
      <<"\"status\"", <<"s","t","a","t","u","s">>>>,
      <<"\"tasks\"", <<"t","a","s","k","s">>>>,
      <<"\"metadata\"", <<"m","e","t","a","d","a","t","a">>>>,
      <<"\"done\"", <<"d","o","n","e">>>>,
      <<"\"1\"", <<"1">>>>,
      <<"\"2\"", <<"2">>>>,
      <<"\"2x\"", <<"2","x">>>>,
      <<"\"abc\"", <<"a","b","c">>>>,
      <<"\"title\"", <<"t","i","t","l","e">>>>,
      <<"\"a\"", <<"a">>>>,
      <<"\"b\"", <<"b">>>> }
NumLexemes == {p[1] : p \in NumTable}
StrLexemes == {p[1] : p \in StrTable}
NumValue(tok) == (CHOOSE p \in NumTable : p[1] = tok)[2]
StrValue(tok) == (CHOOSE p \in StrTable : p[1] = tok)[2]

Tok(toks, i) == IF i \in 1..Len(toks) THEN toks[i] ELSE "<end>"
ParseFail == [ok |-> FALSE]
ParseOk(v, next) == [ok |-> TRUE, v |-> v, next |-> next]

(* obj[key] = val : a later member of an object literal replaces an        *)
(* earlier one of the same name.                                           *)
PutProp(o, key, val) == (key :> val) @@ o

(* One JSON value starting at lexeme i; next is the lexeme after it.       *)
RECURSIVE ParseValue(_, _), ParseElements(_, _, _), ParseMembers(_, _, _)
ParseValue(toks, i) ==
    LET c == Tok(toks, i) IN
    CASE c \in NumLexemes -> ParseOk(JNum(NumValue(c)), i + 1)
      [] c \in StrLexemes -> ParseOk(JStr(StrValue(c)), i + 1)
      [] c = "null" -> ParseOk(JNull, i + 1)
      [] c = "[" -> IF Tok(toks, i + 1) = "]"
                    THEN ParseOk(JArr(<<>>), i + 2)
                    ELSE ParseElements(toks, i + 1, <<>>)
      [] c = "{" -> IF Tok(toks, i + 1) = "}"
                    THEN ParseOk(JObj(<<>>), i + 2)
                    ELSE ParseMembers(toks, i + 1, <<>>)
      [] OTHER -> ParseFail

ParseElements(toks, i, acc) ==
    LET r == ParseValue(toks, i) IN
    IF ~r.ok THEN ParseFail
    ELSE CASE Tok(toks, r.next) = "," ->
                  ParseElements(toks, r.next + 1, Append(acc, r.v))
           [] Tok(toks, r.next) = "]" ->
                  ParseOk(JArr(Append(acc, r.v)), r.next + 1)
           [] OTHER -> ParseFail

ParseMembers(toks, i, acc) ==
    IF ~(Tok(toks, i) \in StrLexemes /\ Tok(toks, i + 1) = ":") THEN ParseFail
    ELSE LET r == ParseValue(toks, i + 2) IN
         IF ~r.ok THEN ParseFail
         ELSE LET o == PutProp(acc, StrValue(Tok(toks, i)), r.v) IN
              CASE Tok(toks, r.next) = "," -> ParseMembers(toks, r.next + 1, o)
                [] Tok(toks, r.next) = "}" -> ParseOk(JObj(o), r.next + 1)
                [] OTHER -> ParseFail

(* JSON.parse(text): the whole text is one value, or a SyntaxError.        *)
JSONParse(toks) ==
    LET r == ParseValue(toks, 1) IN
    IF r.ok /\ r.next = Len(toks) + 1 THEN [ok |-> TRUE, v |-> r.v] ELSE ParseFail

(* text.indexOf(c), text.lastIndexOf(c), 1-based; 0 when c does not occur. *)
IndexOf(toks, c) ==
    IF \E i \in 1..Len(toks) : toks[i] = c
    THEN CHOOSE i \in 1..Len(toks) : toks[i] = c /\ \A j \in 1..(i - 1) : toks[j] # c
    ELSE 0
LastIndexOf(toks, c) ==
    IF \E i \in 1..Len(toks) : toks[i] = c
    THEN CHOOSE i \in 1..Len(toks) : toks[i] = c /\ \A j \in (i + 1)..Len(toks) : toks[j] # c
    ELSE 0

(***************************************************************************)
(* Property access as the code performs it.  Reading a property of null    *)
(* or undefined is a TypeError; a number or a string has no such own       *)
(* property, and assigning one to it is a TypeError because the file is    *)
(* an ES module and so runs in strict mode.                                *)
(***************************************************************************)
HasProps(v) == v.t \in {"obj", "arr"}
GetProp(v, key) ==
    IF HasProps(v) /\ key \in DOMAIN v.o THEN v.o[key] ELSE JUndefined
SetProp(v, key, val) == [v EXCEPT !.o = PutProp(v.o, key, val)]

(* parseInt(s, 10): leading white space is skipped, then an optional sign, *)
(* then the longest run of decimal digits; NaN when that run is empty.     *)
IsDigit(c) == \E d \in 1..10 : DigitChars[d] = c
DigitValue(c) == (CHOOSE d \in 1..10 : DigitChars[d] = c) - 1
RECURSIVE TrimStart(_)
TrimStart(s) ==
    IF s # <<>> /\ Head(s) \in Whitespace THEN TrimStart(Tail(s)) ELSE s
RECURSIVE DigitRun(_, _)
DigitRun(s, acc) ==
    IF s # <<>> /\ IsDigit(Head(s))
    THEN DigitRun(Tail(s), [n |-> 10 * acc.n + DigitValue(Head(s)), len |-> acc.len + 1])
    ELSE acc
ParseInt(s) ==
    LET body == TrimStart(s)
        signed == body # <<>> /\ Head(body) \in {"-", "+"}
        run == DigitRun(IF signed THEN Tail(body) ELSE body, [n |-> 0, len |-> 0])
    IN  IF run.len = 0 THEN JNaN
        ELSE IF signed /\ Head(body) = "-" THEN JNum(0 - run.n)
        ELSE JNum(run.n)

(***************************************************************************)
(* parseSubtasksFromText (871-944).                                        *)
(***************************************************************************)
TxtPending ==
    <<"p","e","n","d","i","n","g">>
TxtSubtaskTitle ==
    <<"S","u","b","t","a","s","k"," ">>
TxtSubtaskDescription ==
    <<"A","u","t","o","-","g","e","n","e","r","a","t","e","d"," ","f","a",
      "l","l","b","a","c","k"," ","s","u","b","t","a","s","k">>
TxtSubtaskDetails ==
    <<"T","h","i","s"," ","i","s"," ","a"," ","f","a","l","l","b","a","c",
      "k"," ","s","u","b","t","a","s","k"," ","c","r","e","a","t","e","d",
      " ","b","e","c","a","u","s","e"," ","p","a","r","s","i","n","g"," ",
      "f","a","i","l","e","d","."," ","P","l","e","a","s","e"," ","u","p",
      "d","a","t","e"," ","w","i","t","h"," ","r","e","a","l"," ","d","e",
      "t","a","i","l","s",".">>

Returned(value, log) == [threw |-> FALSE, value |-> value, log |-> log]
Thrown(message, log) == [threw |-> TRUE, message |-> message, log |-> log]

(* The messages of the errors thrown inside parseSubtasksFromText: the two *)
(* of its own (878, 887), the TypeErrors of the engine for a property read *)
(* on null (898) and a property assignment on a number or a string (900),  *)
(* and the SyntaxError of JSON.parse, whose wording depends on the text    *)
(* and is kept as the name of its class.                                   *)
TxtNoArray ==
    <<"C","o","u","l","d"," ","n","o","t"," ","l","o","c","a","t","e"," ",
      "v","a","l","i","d"," ","J","S","O","N"," ","a","r","r","a","y"," ",
      "i","n"," ","t","h","e"," ","r","e","s","p","o","n","s","e">>
TxtNotArray ==
    <<"P","a","r","s","e","d"," ","c","o","n","t","e","n","t"," ","i","s",
      " ","n","o","t"," ","a","n"," ","a","r","r","a","y">>
TxtSyntaxError ==
    <<"S","y","n","t","a","x","E","r","r","o","r">>
TxtReadOfNull ==
    <<"C","a","n","n","o","t"," ","r","e","a","d"," ","p","r","o","p","e",
      "r","t","i","e","s"," ","o","f"," ","n","u","l","l"," ","(","r","e",
      "a","d","i","n","g"," ","'","i","d","'",")">>
TxtReadOfUndefined ==
    <<"C","a","n","n","o","t"," ","r","e","a","d"," ","p","r","o","p","e",
      "r","t","i","e","s"," ","o","f"," ","u","n","d","e","f","i","n","e",
      "d"," ","(","r","e","a","d","i","n","g"," ","'","i","d","'",")">>
TxtCreateOnNumber ==
    <<"C","a","n","n","o","t"," ","c","r","e","a","t","e"," ","p","r","o",
      "p","e","r","t","y"," ","'","i","d","'"," ","o","n"," ","n","u","m",
      "b","e","r"," ","'">>
TxtCreateOnString ==
    <<"C","a","n","n","o","t"," ","c","r","e","a","t","e"," ","p","r","o",
      "p","e","r","t","y"," ","'","i","d","'"," ","o","n"," ","s","t","r",
      "i","n","g"," ","'">>
TypeErrorMessage(v) ==
    IF v.t = "null" THEN TxtReadOfNull
    ELSE IF v.t = "undefined" THEN TxtReadOfUndefined
    ELSE IF v.t = "num" THEN TxtCreateOnNumber \o NumText(v.n) \o <<SQ>>
    ELSE IF v.t = "str" THEN TxtCreateOnString \o v.s \o <<SQ>>
    ELSE <<>>
LogEntry(level, msg) == [level |-> level, msg |-> msg]

(* 898-900: the id a parsed subtask gets, index counted from 0.            *)
NormalizedIdShifted(startId, index) == startId + index + 1
NormalizedId(startId, index) == startId + index

(* 905-907: a dependency that is a string goes through parseInt, any other *)
(* entry is kept as it is.                                                 *)
CoerceDependency(dep) == IF dep.t = "str" THEN ParseInt(dep.s) ELSE dep

(* 904-910: the dependency list of a parsed subtask.                       *)
NormalizedDependencies(subtask) ==
    LET d == GetProp(subtask, DependenciesKey) IN
    IF d.t = "arr"
    THEN JArr([i \in 1..Len(d.a) |-> CoerceDependency(d.a[i])])
    ELSE JArr(<<>>)

(* 913: the status a parsed subtask gets.                                  *)
AssignStatusKept(subtask) == subtask
AssignStatus(subtask) == SetProp(subtask, StatusKey, JStr(TxtPending))

(* 896-919: the callback of subtasks.map for one element.                  *)
NormalizeSubtask(subtask, index, startId, parentTaskId) ==
    IF subtask.t \in {"null", "undefined"} THEN Thrown(TypeErrorMessage(subtask), <<>>)
    ELSE LET id == NormalizedId(startId, index)
             mismatch == GetProp(subtask, IdKey) # JNum(id)
             log == IF mismatch
                    THEN <<LogEntry("warn", [what |-> "correcting subtask id",
                                             from |-> GetProp(subtask, IdKey),
                                             to |-> id])>>
                    ELSE <<>>
         IN  IF ~HasProps(subtask) THEN Thrown(TypeErrorMessage(subtask), log)
             ELSE LET s1 == IF mismatch THEN SetProp(subtask, IdKey, JNum(id))
                            ELSE subtask
                      s2 == SetProp(s1, DependenciesKey, NormalizedDependencies(s1))
                      s3 == AssignStatus(s2)
                  IN  Returned(SetProp(s3, ParentTaskIdKey, JNum(parentTaskId)), log)

(* 896: subtasks.map, left to right; a TypeError in the callback ends it.  *)
RECURSIVE MapSubtasks(_, _, _, _, _, _)
MapSubtasks(subtasks, index, startId, parentTaskId, acc, log) ==
    IF index >= Len(subtasks) THEN Returned(JArr(acc), log)
    ELSE LET r == NormalizeSubtask(subtasks[index + 1], index, startId, parentTaskId) IN
         IF r.threw THEN Thrown(r.message, log \o r.log)
         ELSE MapSubtasks(subtasks, index + 1, startId, parentTaskId,
                          Append(acc, r.value), log \o r.log)

(* 874-921: the body of the try block.                                     *)
ParseSubtasksBody(text, startId, expectedCount, parentTaskId) ==
    LET jsonStartIndex == IndexOf(text, "[")
        jsonEndIndex == LastIndexOf(text, "]")
    IN  IF jsonStartIndex = 0 \/ jsonEndIndex = 0 \/ jsonEndIndex < jsonStartIndex
        THEN Thrown(TxtNoArray, <<>>)
        ELSE LET parsed == JSONParse(SubSeq(text, jsonStartIndex, jsonEndIndex)) IN
             IF ~parsed.ok THEN Thrown(TxtSyntaxError, <<>>)
             ELSE IF parsed.v.t # "arr" THEN Thrown(TxtNotArray, <<>>)
             ELSE LET log == IF Len(parsed.v.a) # expectedCount
                             THEN <<LogEntry("warn", [what |-> "count mismatch",
                                                      expected |-> expectedCount,
                                                      parsed |-> Len(parsed.v.a)])>>
                             ELSE <<>>
                  IN  MapSubtasks(parsed.v.a, 0, startId, parentTaskId, <<>>, log)

(* 928-942: the placeholders built in the catch block.                     *)
FallbackSubtasksNone(startId, expectedCount, parentTaskId) == JArr(<<>>)
FallbackSubtasks(startId, expectedCount, parentTaskId) ==
    JArr([k \in 1..expectedCount |->
            JObj((IdKey :> JNum(startId + (k - 1)))
              @@ (TitleKey :> JStr(TxtSubtaskTitle \o NumText(startId + (k - 1))))
              @@ (DescriptionKey :> JStr(TxtSubtaskDescription))
              @@ (DependenciesKey :> JArr(<<>>))
              @@ (DetailsKey :> JStr(TxtSubtaskDetails))
              @@ (StatusKey :> JStr(TxtPending))
              @@ (ParentTaskIdKey :> JNum(parentTaskId)))])

(* 922-943: catch (error), which logs and returns the placeholders.        *)
CatchSubtasksRethrown(outcome, startId, expectedCount, parentTaskId) == outcome
CatchSubtasks(outcome, startId, expectedCount, parentTaskId) ==
    IF outcome.threw
    THEN Returned(FallbackSubtasks(startId, expectedCount, parentTaskId),
                  outcome.log \o <<LogEntry("error", [what |-> "error parsing subtasks"]),
                                   LogEntry("warn", [what |-> "creating fallback subtasks"])>>)
    ELSE outcome

parseSubtasksFromText(text, startId, expectedCount, parentTaskId) ==
    CatchSubtasks(ParseSubtasksBody(text, startId, expectedCount, parentTaskId),
                  startId, expectedCount, parentTaskId)

(***************************************************************************)
(* The whole-document extraction ladder of handleStreamingRequest          *)
(* (381-477).  PROJECT_NAME is taken as unset, the PRD path and the date   *)
(* of the run are parameters.                                              *)
(***************************************************************************)
TxtTaskTitle ==
    <<"T","a","s","k"," ">>
TxtTaskDescription ==
    <<"A","u","t","o","-","g","e","n","e","r","a","t","e","d"," ","f","a",
      "l","l","b","a","c","k"," ","t","a","s","k"," ">>
TxtMedium ==
    <<"m","e","d","i","u","m">>
TxtTaskDetails ==
    <<"T","h","i","s"," ","t","a","s","k"," ","w","a","s"," ","a","u","t",
      "o","-","g","e","n","e","r","a","t","e","d"," ","d","u","e"," ","t",
      "o"," ","p","a","r","s","i","n","g"," ","i","s","s","u","e","s"," ",
      "w","i","t","h"," ","t","h","e"," ","A","I"," ","r","e","s","p","o",
      "n","s","e",".">>
TxtManualVerification ==
    <<"M","a","n","u","a","l"," ","v","e","r","i","f","i","c","a","t","i",
      "o","n">>
TxtDefaultProjectName ==
    <<"T","a","s","k"," ","M","a","s","t","e","r"," ","P","r","o","j","e",
      "c","t">>
TxtFallbackNote ==
    <<"T","a","s","k","s"," ","w","e","r","e"," ","g","e","n","e","r","a",
      "t","e","d"," ","a","s"," ","f","a","l","l","b","a","c","k","s"," ",
      "d","u","e"," ","t","o"," ","A","I"," ","r","e","s","p","o","n","s",
      "e"," ","p","a","r","s","i","n","g"," ","i","s","s","u","e","s",".">>
TxtErrorNote ==
    <<"T","a","s","k","s"," ","w","e","r","e"," ","g","e","n","e","r","a",
      "t","e","d"," ","a","s"," ","f","a","l","l","b","a","c","k","s"," ",
      "d","u","e"," ","t","o"," ","e","r","r","o","r",":"," ">>
TxtPrdPath ==
    <<"p","r","d",".","t","x","t">>
TxtToday ==
    <<"2","0","2","5","-","0","1","-","0","1">>

(* 410-419, 433-442, 459-468: the placeholder tasks.                       *)
FallbackTasksNone(numTasks) == JArr(<<>>)
FallbackTasks(numTasks) ==
    JArr([k \in 1..numTasks |->
            JObj((IdKey :> JNum(k))
              @@ (TitleKey :> JStr(TxtTaskTitle \o NumText(k)))
              @@ (DescriptionKey :> JStr(TxtTaskDescription \o NumText(k)))
              @@ (StatusKey :> JStr(TxtPending))
              @@ (DependenciesKey :> JArr(<<>>))
              @@ (PriorityKey :> JStr(TxtMedium))
              @@ (DetailsKey :> JStr(TxtTaskDetails))
              @@ (TestStrategyKey :> JStr(TxtManualVerification)))])

(* 420-426, 443-449, 469-475: the metadata of the placeholder document.    *)
FallbackMetadata(numTasks, prdPath, today, note) ==
    JObj((ProjectNameKey :> JStr(TxtDefaultProjectName))
      @@ (TotalTasksKey :> JNum(numTasks))
      @@ (SourceFileKey :> JStr(prdPath))
      @@ (GeneratedAtKey :> JStr(today))
      @@ (NoteKey :> JStr(note)))

FallbackDocument(numTasks, prdPath, today, note) ==
    JObj((TasksKey :> FallbackTasks(numTasks))
      @@ (MetadataKey :> FallbackMetadata(numTasks, prdPath, today, note)))

(* 396: the text has an opening brace and a closing brace after it.        *)
HasBraceSliceAlways(jsonStart, jsonEnd) == TRUE
HasBraceSlice(jsonStart, jsonEnd) ==
    jsonStart >= 1 /\ jsonEnd >= 1 /\ jsonEnd > jsonStart

(* The ladder with its first two rungs exchanged.                          *)
ExtractDocumentBodySliceFirst(text, numTasks, prdPath, today) ==
    LET jsonStart == IndexOf(text, "{")
        jsonEnd == LastIndexOf(text, "}")
        sliced == IF HasBraceSlice(jsonStart, jsonEnd)
                  THEN JSONParse(SubSeq(text, jsonStart, jsonEnd))
                  ELSE ParseFail
    IN  IF sliced.ok
        THEN Returned(sliced.v, <<LogEntry("debug", [what |-> "extracted JSON"])>>)
        ELSE IF JSONParse(text).ok THEN Returned(JSONParse(text).v, <<>>)
        ELSE Returned(FallbackDocument(numTasks, prdPath, today, TxtFallbackNote),
                      <<LogEntry("warn", [what |-> "creating fallback tasks structure"])>>)

(* 384-452: the inner try and its catch.                                   *)
ExtractDocumentBody(text, numTasks, prdPath, today) ==
    LET direct == JSONParse(text) IN
    IF direct.ok THEN Returned(direct.v, <<>>)
    ELSE LET jsonStart == IndexOf(text, "{")
             jsonEnd == LastIndexOf(text, "}")
             log1 == <<LogEntry("debug", [what |-> "failed to parse response as JSON"]),
                       LogEntry("debug", [what |-> "json indexes",
                                          start |-> jsonStart - 1, end |-> jsonEnd - 1])>>
         IN  IF HasBraceSlice(jsonStart, jsonEnd)
             THEN LET extracted == JSONParse(SubSeq(text, jsonStart, jsonEnd))
                      log2 == log1 \o <<LogEntry("debug", [what |-> "extracted JSON"])>>
                  IN  IF extracted.ok THEN Returned(extracted.v, log2)
                      ELSE Returned(
                             FallbackDocument(numTasks, prdPath, today, TxtFallbackNote),
                             log2 \o <<LogEntry("debug", [what |-> "failed to parse extracted JSON"]),
                                       LogEntry("warn", [what |-> "creating fallback tasks structure"])>>)
             ELSE Returned(
                    FallbackDocument(numTasks, prdPath, today, TxtFallbackNote),
                    log1 \o <<LogEntry("warn", [what |-> "creating fallback tasks structure, missing JSON markers"])>>)

(* 453-477: the outer catch; the note ends with e.message (474).           *)
CatchDocument(outcome, numTasks, prdPath, today) ==
    IF outcome.threw
    THEN Returned(FallbackDocument(numTasks, prdPath, today,
                                   TxtErrorNote \o outcome.message),
                  outcome.log \o <<LogEntry("error", [what |-> "error parsing response"]),
                                   LogEntry("warn", [what |-> "creating fallback tasks structure, parsing error"])>>)
    ELSE outcome

ExtractDocument(text, numTasks, prdPath, today) ==
    CatchDocument(ExtractDocumentBody(text, numTasks, prdPath, today),
                  numTasks, prdPath, today)

(***************************************************************************)
(* Inputs of the extractors: every text of up to MaxRawLen lexemes over    *)
(* the markers, prose and null; and arrays of up to MaxRecords elements,   *)
(* bare or as the tasks of a document, with or without prose around them.  *)
(***************************************************************************)
MaxRawLen == 3
MaxRecords == 2
MaxCount == 2
MaxStart == 2

RawAlphabet == {"[", "]", "{", "}", "x", "null"}
RawTexts == AllTexts(RawAlphabet, MaxRawLen)

(* {"id":7,"title":"a","dependencies":[]}                                  *)
RecA ==
    <<"{", "\"id\"", ":", "7", ",", "\"title\"", ":", "\"a\"", ",",
      "\"dependencies\"", ":", "[", "]", "}">>
(* {"id":9,"title":"b","dependencies":[2],"status":"done"}                 *)
RecB ==
    <<"{", "\"id\"", ":", "9", ",", "\"title\"", ":", "\"b\"", ",",
      "\"dependencies\"", ":", "[", "2", "]", ",",
      "\"status\"", ":", "\"done\"", "}">>
(* {"id":"2","dependencies":["1","2x"]}                                    *)
RecC ==
    <<"{", "\"id\"", ":", "\"2\"", ",", "\"dependencies\"", ":",
      "[", "\"1\"", ",", "\"2x\"", "]", "}">>
(* {"status":"done"}                                                       *)
RecD == <<"{", "\"status\"", ":", "\"done\"", "}">>
(* {"id":1,"dependencies":1}                                               *)
RecE == <<"{", "\"id\"", ":", "1", ",", "\"dependencies\"", ":", "1", "}">>
(* {"id":2,"dependencies":["abc",null]}                                    *)
RecF ==
    <<"{", "\"id\"", ":", "2", ",", "\"dependencies\"", ":",
      "[", "\"abc\"", ",", "null", "]", "}">>

Records == {RecA, RecB, RecC, RecD, RecE, RecF}
NonRecords == {<<"null">>, <<"1">>}
Elements == Records \cup NonRecords

RECURSIVE JoinElements(_)
JoinElements(es) ==
    IF es = <<>> THEN <<>>
    ELSE IF Len(es) = 1 THEN es[1]
    ELSE es[1] \o <<",">> \o JoinElements(Tail(es))
ArrayText(es) == <<"[">> \o JoinElements(es) \o <<"]">>
ArrayTexts == {ArrayText(es) : es \in AllTexts(Elements, MaxRecords)}

(* {"tasks":[...],"metadata":{}}                                           *)
DocumentText(arr) ==
    <<"{", "\"tasks\"", ":">> \o arr \o <<",", "\"metadata\"", ":", "{", "}", "}">>
Prose == {<<>>, <<"x">>}
ExtractInputs ==
    RawTexts
    \cup {pre \o arr \o post : pre \in Prose, arr \in ArrayTexts, post \in Prose}
    \cup {pre \o DocumentText(arr) : pre \in Prose, arr \in ArrayTexts}

ParentIds == {5}

ExtractInput ==
    /\ exText \in ExtractInputs
    /\ exCount \in 1..MaxCount
    /\ exStart \in 1..MaxStart
    /\ exParent \in ParentIds
    /\ exPc = "input"
    /\ exResult = JUndefined
    /\ exLog = <<>>

Delivered(outcome) == IF outcome.threw THEN [t |-> "thrown"] ELSE outcome.value

(* The assembled text as the extractor reads it.  The texts assembled here *)
(* hold no digit, quote or letter of a JSON literal, so every character is *)
(* a marker or prose.                                                      *)
Lexemes(text) ==
    [i \in 1..Len(text) |->
        IF text[i] \in {"[", "]", "{", "}", ",", ":"} THEN text[i] ELSE "x"]

(***************************************************************************)
(* Model gateway: callClaude with handleStreamingRequest, and              *)
(* generateSubtasks.                                                       *)
(***************************************************************************)
Ops == {"callClaude", "generateSubtasks"}
Modes == {"reader", "buffered"}

NoMessage == <<>>

(* Errors with which fetch() rejects.                                      *)
ErrConnRefused ==
    [code |-> "ECONNREFUSED", type |-> "system", status |-> 0,
     message |-> 
        <<"c","o","n","n","e","c","t"," ","E","C","O","N","N","R","E","F","U","S","E","D">>]
ErrNotFound ==
    [code |-> "ENOTFOUND", type |-> "system", status |-> 0,
     message |-> 
        <<"g","e","t","a","d","d","r","i","n","f","o"," ","E","N","O","T","F","O","U","N","D">>]
ErrNetTimeout ==
    [code |-> "none", type |-> "request-timeout", status |-> 0,
     message |-> 
        <<"n","e","t","w","o","r","k"," ","t","i","m","e","o","u","t">>]
ErrTypeTimeout ==
    [code |-> "none", type |-> "request-timeout", status |-> 0,
     message |-> 
        <<"r","e","q","u","e","s","t"," ","a","b","o","r","t","e","d">>]
ErrNetwork ==
    [code |-> "none", type |-> "system", status |-> 0,
     message |-> 
        <<"N","e","t","w","o","r","k"," ","u","n","r","e","a","c","h","a","b","l","e">>]
ErrHangUp ==
    [code |-> "ECONNRESET", type |-> "system", status |-> 0,
     message |-> 
        <<"s","o","c","k","e","t"," ","h","a","n","g"," ","u","p">>]
(* An error of the response body stream.                                   *)
ErrBodyTimeout ==
    [code |-> "none", type |-> "body-timeout", status |-> 0,
     message |-> 
        <<"R","e","s","p","o","n","s","e"," ","t","i","m","e","o","u","t">>]

FetchErrors == {ErrConnRefused, ErrNotFound, ErrNetTimeout, ErrTypeTimeout,
                ErrNetwork, ErrHangUp}
BodyErrors == {ErrHangUp, ErrBodyTimeout}

(* Non-success responses: the status and the `error` field of the JSON     *)
(* body (NoMessage when the body has none or is not JSON).                  *)
HttpFailures ==
    { [status |-> 404, error |-> NoMessage],
      [status |-> 400, error |-> NoMessage],
      [status |-> 500, error |-> NoMessage],
      [status |-> 503, error |-> 
        <<"G","a","t","e","w","a","y"," ","T","i","m","e","o","u","t">>],
      [status |-> 502, error |-> 
        <<"n","e","t","w","o","r","k"," ","d","o","w","n">>] }

(* throw { status: response.status,                                        *)
(*         message: error.error || `HTTP error ${response.status}` }       *)
ThrownHttp(r) ==
    [code |-> "none", type |-> "none", status |-> r.status,
     message |-> IF r.error # NoMessage THEN r.error
                 ELSE TxtHttpError \o NumText(r.status)]

OkOutcome == [code |-> "none", type |-> "ok", status |-> 200, message |-> NoMessage]

IsConnectivity(e) == e.code = "ECONNREFUSED" \/ e.code = "ENOTFOUND"
MessageHas(e, word) == includes(toLowerCase(e.message), word)

(* handleOllamaError: the user message, as its cause and what it names.    *)
handleOllamaError(error) ==
    IF IsConnectivity(error)
    THEN [cause |-> "connect", names |-> {"OLLAMA_API_URL"}, detail |-> NoMessage]
    ELSE IF error.type = "request-timeout" \/ MessageHas(error, TxtTimeout)
    THEN [cause |-> "timeout", names |-> {}, detail |-> NoMessage]
    ELSE IF error.status # 0
    THEN CASE error.status = 404 ->
                [cause |-> "model-not-found",
                 names |-> {"OLLAMA_MODEL", "ollama pull"}, detail |-> NoMessage]
           [] error.status = 400 ->
                [cause |-> "bad-request", names |-> {}, detail |-> NoMessage]
           [] error.status = 500 ->
                [cause |-> "server-error", names |-> {}, detail |-> NoMessage]
           [] OTHER ->
                [cause |-> "api-error", names |-> {"status"}, detail |-> error.message]
    ELSE IF MessageHas(error, TxtNetwork)
    THEN [cause |-> "network", names |-> {}, detail |-> NoMessage]
    ELSE [cause |-> "other", names |-> {}, detail |-> error.message]

(* The retry condition with the budget test off by one.                    *)
ShouldRetryOffByOne(error, rc) ==
    /\ rc <= MaxRetries
    /\ \/ error.code = "ECONNREFUSED"
       \/ error.code = "ENOTFOUND"
       \/ MessageHas(error, TxtTimeout)
       \/ MessageHas(error, TxtNetwork)

(* The retry condition extended to every 5xx status.                       *)
ShouldRetryServerErrors(error, rc) ==
    /\ rc < MaxRetries
    /\ \/ error.code = "ECONNREFUSED"
       \/ error.code = "ENOTFOUND"
       \/ MessageHas(error, TxtTimeout)
       \/ MessageHas(error, TxtNetwork)
       \/ error.status >= 500

(* callClaude's retry condition.                                           *)
ShouldRetry(error, rc) ==
    /\ rc < MaxRetries
    /\ \/ error.code = "ECONNREFUSED"
       \/ error.code = "ENOTFOUND"
       \/ MessageHas(error, TxtTimeout)
       \/ MessageHas(error, TxtNetwork)

(* The wait without its dependence on retryCount.                          *)
WaitTimeFlat(rc) == BackoffStepMs

(* const waitTime = (retryCount + 1) * 5000                                *)
WaitTime(rc) == (rc + 1) * BackoffStepMs

(* The exit paths without clearInterval.                                   *)
ClearIntervalForgotten(handle, n) == n

(* if (streamingInterval) clearInterval(streamingInterval)                 *)
ClearInterval(handle, n) == IF handle THEN n - 1 ELSE n

(* stopLoadingIndicator(loadingIndicator)                                  *)
StopIndicator(n) == n - 1

(* Bodies of a successful response, as the chunks in which they arrive.    *)
GatewayBodies ==
    { <<>>,
      <<RenderObj(<<"a">>)>>,
      <<<<"{", "a">>, <<"}", NL>>>>,
      <<RenderObj(<<"a">>), RenderObj(<<"b">>)>> }

GatewayIdle ==
    /\ op = "none"
    /\ pc = "idle"
    /\ retryCount = 0
    /\ requests = 0
    /\ inflight = 0
    /\ waits = <<>>
    /\ elapsed = 0
    /\ indicators = 0
    /\ timers = 0
    /\ streamingInterval = FALSE
    /\ dotCount = 0
    /\ mode = "none"
    /\ pending = <<>>
    /\ delivered = <<>>
    /\ chunkBuf = <<>>
    /\ responseText = <<>>
    /\ outcomes = <<>>
    /\ processedText = <<>>
    /\ surfaced = [thrown |-> "nothing"]
    /\ abandoned = <<>>
    /\ dotsShown = 0

(* The caller invokes callClaude(prdContent, prdPath, numTasks) with        *)
(* retryCount = 0, or generateSubtasks(task, numSubtasks, nextSubtaskId).  *)
Invoke ==
    /\ pc = "idle"
    /\ \E o \in Ops : op' = o
    /\ exCount' \in 1..MaxCount
    /\ IF op' = "generateSubtasks"
       THEN exStart' \in 1..MaxStart /\ exParent' \in ParentIds
       ELSE UNCHANGED <<exStart, exParent>>
    /\ UNCHANGED <<exText, exPc, exResult, exLog>>
    /\ pc' = "begin"
    /\ UNCHANGED <<retryCount, requests, inflight, waits, elapsed, indicators, timers,
                   streamingInterval, dotCount, mode, pending, delivered, chunkBuf,
                   responseText, outcomes, processedText, surfaced, abandoned,
                   dotsShown>>

(* The accumulator carried over from the invocation before.                *)
FreshResponseTextKept(previous) == previous

(* 228, 497: `let responseText = ''` is a local of the invocation; what an *)
(* earlier invocation accumulated is not visible to it.                    *)
FreshResponseText(previous) == <<>>

(* An attempt begins: startLoadingIndicator(...), responseText = '',        *)
(* streamingInterval = null.                                               *)
StartAttempt ==
    /\ pc = "begin"
    /\ indicators' = indicators + 1
    /\ responseText' = FreshResponseText(responseText)
    /\ streamingInterval' = FALSE
    /\ pc' = "started"
    /\ UNCHANGED <<op, retryCount, requests, inflight, waits, elapsed, timers, dotCount, mode,
                   pending, delivered, chunkBuf, outcomes, processedText, surfaced, abandoned,
                   dotsShown>>

(* fetch(`${OLLAMA_API_URL}/api/chat`, ...) is issued; generateSubtasks     *)
(* sets its interval timer just before.                                    *)
IssueRequest ==
    /\ pc = "started"
    /\ requests' = requests + 1
    /\ inflight' = inflight + 1
    /\ IF op = "generateSubtasks"
       THEN /\ timers' = timers + 1
            /\ streamingInterval' = TRUE
            /\ dotCount' = 0
       ELSE UNCHANGED <<timers, streamingInterval, dotCount>>
    /\ pc' = "fetching"
    /\ UNCHANGED <<op, retryCount, waits, elapsed, indicators, mode, pending, delivered,
                   chunkBuf, responseText, outcomes, processedText, surfaced, abandoned,
                   dotsShown>>

(* The backoff promise created but not awaited: the retry starts at once.   *)
BackoffNotAwaited ==
    /\ waits' = Append(waits, WaitTime(retryCount))
    /\ pc' = "begin"
    /\ retryCount' = retryCount + 1

(* await new Promise(resolve => setTimeout(resolve, waitTime)) : callClaude *)
(* is suspended until the backoff timer fires.                             *)
Backoff ==
    /\ waits' = Append(waits, WaitTime(retryCount))
    /\ pc' = "waiting"
    /\ UNCHANGED retryCount

(* An attempt throws `error`: the catch of handleStreamingRequest /         *)
(* generateSubtasks clears the timer, stops the indicator and rethrows;     *)
(* callClaude's catch then retries after a wait or throws the user message; *)
(* generateSubtasks rethrows the error as it is.                            *)
Throw(error) ==
    /\ timers' = ClearInterval(streamingInterval, timers)
    /\ indicators' = StopIndicator(indicators)
    /\ inflight' = inflight - 1
    /\ outcomes' = Append(outcomes, error)
    /\ abandoned' = Append(abandoned, responseText)
    /\ IF op = "callClaude"
       THEN IF ShouldRetry(error, retryCount)
            THEN /\ Backoff
                 /\ UNCHANGED surfaced
            ELSE /\ pc' = "failed"
                 /\ surfaced' = [thrown |-> "userMessage",
                                 message |-> handleOllamaError(error)]
                 /\ UNCHANGED <<waits, retryCount>>
       ELSE /\ pc' = "failed"
            /\ surfaced' = [thrown |-> "error", error |-> error]
            /\ UNCHANGED <<waits, retryCount>>
    /\ UNCHANGED <<op, requests, elapsed, streamingInterval, dotCount, mode,
                   pending, delivered, chunkBuf, responseText, processedText, dotsShown>>

(* fetch() rejects.                                                        *)
FetchRejected ==
    /\ pc = "fetching"
    /\ \E e \in FetchErrors : Throw(e)

(* The response arrives with a non-success status.                         *)
ResponseNotOk ==
    /\ pc = "fetching"
    /\ \E r \in HttpFailures : Throw(ThrownHttp(r))

(* The response arrives with a success status: handleStreamingRequest sets  *)
(* its interval timer; the body's capabilities select the delivery mode.    *)
ResponseOk ==
    /\ pc = "fetching"
    /\ \E m \in Modes : mode' = m
    /\ \E b \in GatewayBodies : pending' = b
    /\ delivered' = <<>>
    /\ chunkBuf' = <<>>
    /\ IF op = "callClaude"
       THEN /\ timers' = timers + 1
            /\ streamingInterval' = TRUE
            /\ dotCount' = 0
       ELSE UNCHANGED <<timers, streamingInterval, dotCount>>
    /\ pc' = "reading"
    /\ UNCHANGED <<op, retryCount, requests, inflight, waits, elapsed, indicators,
                   responseText, outcomes, processedText, surfaced, abandoned,
                   dotsShown>>

(* The next chunk of the body arrives.                                     *)
ReadChunk ==
    /\ pc = "reading"
    /\ pending # <<>>
    /\ IF mode = "reader"
       THEN /\ responseText' = ReaderStep(responseText, Head(pending))
            /\ UNCHANGED chunkBuf
       ELSE /\ chunkBuf' = Append(chunkBuf, Head(pending))
            /\ UNCHANGED responseText
    /\ delivered' = Append(delivered, Head(pending))
    /\ pending' = Tail(pending)
    /\ UNCHANGED <<op, pc, retryCount, requests, inflight, waits, elapsed, indicators, timers,
                   streamingInterval, dotCount, mode, outcomes, processedText, surfaced, abandoned,
                   dotsShown>>

(* The body stream fails before its end.                                   *)
BodyError ==
    /\ pc = "reading"
    /\ \E e \in BodyErrors : Throw(e)

(* The text an attempt has assembled when its body ends.                   *)
AssembledText ==
    IF mode = "reader" THEN responseText ELSE BufferedFinish(responseText, chunkBuf)

(* 381-452, 675: what the operation returns for the normalized text: the   *)
(* document of the extraction ladder in callClaude, the subtasks of        *)
(* parseSubtasksFromText in generateSubtasks.                              *)
ExtractFor(o, text, count, start, parent) ==
    IF o = "callClaude"
    THEN ExtractDocument(Lexemes(text), count, TxtPrdPath, TxtToday)
    ELSE parseSubtasksFromText(Lexemes(text), start, count, parent)

(* The body ends: the timer is cleared, the indicator stopped, the text     *)
(* normalized and handed to the extractor, whose value the attempt returns. *)
BodyEnd ==
    /\ pc = "reading"
    /\ pending = <<>>
    /\ responseText' = AssembledText
    /\ timers' = ClearInterval(streamingInterval, timers)
    /\ indicators' = StopIndicator(indicators)
    /\ processedText' = processOllamaResponse(AssembledText)
    /\ LET outcome == ExtractFor(op, processOllamaResponse(AssembledText), exCount,
                                 exStart, exParent) IN
         /\ exText' = Lexemes(processOllamaResponse(AssembledText))
         /\ exResult' = Delivered(outcome)
         /\ exLog' = outcome.log
    /\ exPc' = IF op = "callClaude" THEN "document" ELSE "subtasks"
    /\ UNCHANGED <<exCount, exStart, exParent>>
    /\ inflight' = inflight - 1
    /\ outcomes' = Append(outcomes, OkOutcome)
    /\ pc' = "done"
    /\ UNCHANGED <<op, retryCount, requests, waits, elapsed, streamingInterval, dotCount,
                   mode, pending, delivered, chunkBuf, surfaced, abandoned,
                   dotsShown>>

(* The backoff timer fires: callClaude(prdContent, prdPath, numTasks,       *)
(* retryCount + 1).                                                        *)
WaitElapsed ==
    /\ pc = "waiting"
    /\ elapsed' = elapsed + 1
    /\ retryCount' = retryCount + 1
    /\ pc' = "begin"
    /\ UNCHANGED <<op, requests, inflight, waits, indicators, timers, streamingInterval,
                   dotCount, mode, pending, delivered, chunkBuf, responseText, outcomes,
                   processedText, surfaced, abandoned,
                   dotsShown>>

(* A timer callback that also empties the accumulator.                     *)
TickClearingText ==
    /\ timers > 0
    /\ pc \in {"fetching", "reading", "waiting"}
    /\ dotsShown' = dotCount
    /\ dotCount' = (dotCount + 1) % DotModulus
    /\ responseText' = <<>>
    /\ UNCHANGED <<op, pc, retryCount, requests, inflight, waits, elapsed, indicators, timers,
                   streamingInterval, mode, pending, delivered, chunkBuf,
                   outcomes, processedText, surfaced, abandoned>>

(* 265-269, 544-548: the interval timer fires while the operation is       *)
(* suspended; the callback rewrites the progress line with dotCount dots   *)
(* and advances dotCount.                                                  *)
Tick ==
    /\ timers > 0
    /\ pc \in {"fetching", "reading", "waiting"}
    /\ dotsShown' = dotCount
    /\ dotCount' = (dotCount + 1) % DotModulus
    /\ UNCHANGED <<op, pc, retryCount, requests, inflight, waits, elapsed, indicators, timers,
                   streamingInterval, mode, pending, delivered, chunkBuf, responseText,
                   outcomes, processedText, surfaced, abandoned>>

(***************************************************************************)
(* Specifications.                                                         *)
(***************************************************************************)
Init ==
    GatewayIdle /\ StreamIdle /\ NormIdle /\ ExtractIdle /\ GraphIdle /\ ResearchIdle
    /\ ClientIdle

Next ==
    \/ (Invoke /\ UNCHANGED <<streamVars, normVars, graphVars, researchVars, clientVars>>)
    \/ (StartAttempt /\ UNCHANGED <<streamVars, normVars, extractVars, graphVars, researchVars, clientVars>>)
    \/ (IssueRequest /\ UNCHANGED <<streamVars, normVars, extractVars, graphVars, researchVars, clientVars>>)
    \/ (FetchRejected /\ UNCHANGED <<streamVars, normVars, extractVars, graphVars, researchVars, clientVars>>)
    \/ (ResponseNotOk /\ UNCHANGED <<streamVars, normVars, extractVars, graphVars, researchVars, clientVars>>)
    \/ (ResponseOk /\ UNCHANGED <<streamVars, normVars, extractVars, graphVars, researchVars, clientVars>>)
    \/ (ReadChunk /\ UNCHANGED <<streamVars, normVars, extractVars, graphVars, researchVars, clientVars>>)
    \/ (BodyError /\ UNCHANGED <<streamVars, normVars, extractVars, graphVars, researchVars, clientVars>>)
    \/ (BodyEnd /\ UNCHANGED <<streamVars, normVars, graphVars, researchVars, clientVars>>)
    \/ (WaitElapsed /\ UNCHANGED <<streamVars, normVars, extractVars, graphVars, researchVars, clientVars>>)
    \/ (Tick /\ UNCHANGED <<streamVars, normVars, extractVars, graphVars, researchVars, clientVars>>)

Spec == Init /\ [][Next]_vars

StreamInit ==
    /\ GatewayIdle
    /\ ResearchIdle
    /\ ClientIdle
    /\ NormIdle
    /\ ExtractIdle
    /\ GraphIdle
    /\ sObjs \in StreamObjs
    /\ sRemaining \in StreamBodies(sObjs)
    /\ sPc = "stream"
    /\ readerText = <<>>
    /\ bufChunks = <<>>
    /\ bufferedText = <<>>

StreamNext ==
    \/ (StreamDeliver /\ UNCHANGED <<gatewayVars, normVars, extractVars, graphVars, researchVars, clientVars>>)
    \/ (StreamEnd /\ UNCHANGED <<gatewayVars, normVars, extractVars, graphVars, researchVars, clientVars>>)

SpecStream == StreamInit /\ [][StreamNext]_vars

NormInit ==
    /\ GatewayIdle
    /\ ResearchIdle
    /\ ClientIdle
    /\ StreamIdle
    /\ ExtractIdle
    /\ GraphIdle
    /\ normInput \in NormInputs
    /\ normText = normInput
    /\ normStage = "raw"

NormNext ==
    \/ (NormalizeOnce /\ UNCHANGED <<gatewayVars, streamVars, extractVars, graphVars, researchVars, clientVars>>)
    \/ (NormalizeAgain /\ UNCHANGED <<gatewayVars, streamVars, extractVars, graphVars, researchVars, clientVars>>)

SpecNorm == NormInit /\ [][NormNext]_vars

(***************************************************************************)
(* Properties.                                                             *)
(***************************************************************************)
IsFailure(o) == o.type # "ok"
LastOutcome == outcomes[Len(outcomes)]
IsTimeoutClass(e) == handleOllamaError(e).cause = "timeout"

(* A non-success HTTP status whose message carries neither 'timeout' nor    *)
(* 'network'.                                                              *)
IsPlainHttpFailure(e) ==
    /\ IsFailure(e)
    /\ e.status # 0
    /\ ~MessageHas(e, TxtTimeout)
    /\ ~MessageHas(e, TxtNetwork)

(* The text the two delivery modes assemble from a list of chunks.          *)
RECURSIVE ReaderAll(_, _)
ReaderAll(text, chunks) ==
    IF chunks = <<>> THEN text
    ELSE ReaderAll(ReaderStep(text, Head(chunks)), Tail(chunks))

AssemblyOf(m, chunks) ==
    IF m = "reader" THEN ReaderAll(<<>>, chunks) ELSE BufferedFinish(<<>>, chunks)

TwoConnectivityFailures ==
    /\ op = "callClaude"
    /\ Len(outcomes) >= 2
    /\ IsConnectivity(outcomes[1])
    /\ IsConnectivity(outcomes[2])

(* C1: when the first two attempts of callClaude fail with ECONNREFUSED or  *)
(* ENOTFOUND, the third request is issued after exactly two backoff waits,  *)
(* of 5000 ms and then 10000 ms, and when the third attempt succeeds the    *)
(* call returns what that attempt assembled from its own body.              *)
C1_TwoFailuresThenSuccess ==
    TwoConnectivityFailures =>
        /\ requests = 3 => waits = <<5000, 10000>>
        /\ pc = "done" =>
             /\ requests = 3
             /\ waits = <<5000, 10000>>
             /\ Len(outcomes) = 3
             /\ processedText = processOllamaResponse(AssemblyOf(mode, delivered))

C1_Witness ==
    /\ TwoConnectivityFailures
    /\ pc = "done"
    /\ processedText = <<"a", "b">>

(* C2: a callClaude invocation issues at most 3 requests and performs at    *)
(* most 2 backoff waits; when the third attempt fails the call fails with   *)
(* the user message thrown to the caller and no fourth request.             *)
C2_AtMostThreeAttempts ==
    op = "callClaude" =>
        /\ requests <= 3
        /\ Len(waits) <= 2
        /\ (Len(outcomes) >= 3 /\ IsFailure(outcomes[3])) =>
             /\ pc = "failed"
             /\ requests = 3
             /\ Len(outcomes) = 3
             /\ surfaced.thrown = "userMessage"

C2_Witness ==
    /\ op = "callClaude"
    /\ pc = "failed"
    /\ Len(outcomes) = 3
    /\ (IsConnectivity(outcomes[3]) \/ IsTimeoutClass(outcomes[3]))

(* C3 as stated: when an attempt of callClaude fails with a plain           *)
(* non-success HTTP status, the call has failed with exactly one request    *)
(* issued and no backoff wait performed.                                    *)
C3_ExactlyOneRequest ==
    (op = "callClaude" /\ outcomes # <<>> /\ IsPlainHttpFailure(LastOutcome)) =>
        /\ pc = "failed"
        /\ requests = 1
        /\ waits = <<>>

(* C3 amended: when an attempt of callClaude fails with a plain non-success *)
(* HTTP status, the call fails at that attempt: no backoff wait follows it, *)
(* no further request is issued and the retry count is not advanced; when   *)
(* it is the first attempt, exactly one request has been issued and no      *)
(* backoff wait performed.                                                  *)
C3_FailsAtThatAttempt ==
    (op = "callClaude" /\ outcomes # <<>> /\ IsPlainHttpFailure(LastOutcome)) =>
        /\ pc = "failed"
        /\ requests = Len(outcomes)
        /\ Len(waits) = Len(outcomes) - 1
        /\ retryCount = Len(outcomes) - 1
        /\ Len(outcomes) = 1 => (requests = 1 /\ waits = <<>>)

C3_Witness ==
    /\ op = "callClaude"
    /\ pc = "failed"
    /\ Len(outcomes) = 1
    /\ IsPlainHttpFailure(outcomes[1])
    /\ outcomes[1].status = 500

(* C4: no failure that handleOllamaError classifies as a timeout is         *)
(* surfaced by callClaude while fewer than 2 retries have been used.        *)
C4_TimeoutsAreRetried ==
    (op = "callClaude" /\ pc = "failed" /\ IsTimeoutClass(LastOutcome)) =>
        retryCount >= 2

(* C5: a connectivity or timeout failure of the request of generateSubtasks *)
(* is surfaced only after 3 requests and waits of 5000 ms then 10000 ms.    *)
C5_SubtasksRetry ==
    (/\ op = "generateSubtasks"
     /\ pc = "failed"
     /\ (IsConnectivity(LastOutcome) \/ IsTimeoutClass(LastOutcome))) =>
        /\ requests = 3
        /\ waits = <<5000, 10000>>

(* C6: whatever the chunking of the body, the incremental-reader mode and   *)
(* the buffered mode assemble the same text, the concatenation of the       *)
(* message.content of all objects in arrival order.                         *)
C6_ModesAgree ==
    sPc = "end" =>
        /\ readerText = bufferedText
        /\ readerText = ExpectedText(sObjs)

(* C7: the loading indicator is active before and while a request is out;   *)
(* whenever an attempt has exited (return, or a throw at any step) its      *)
(* indicator is stopped and its interval timer cleared, so none is active   *)
(* during a backoff wait, and the next attempt runs with its own only.      *)
C7_IndicatorLifecycle ==
    /\ indicators \in {0, 1}
    /\ timers \in {0, 1}
    /\ pc \in {"started", "fetching", "reading"} => indicators = 1
    /\ inflight > 0 => indicators = 1
    /\ pc \in {"idle", "begin", "waiting", "failed", "done"} =>
         (indicators = 0 /\ timers = 0)

C7_Witness ==
    /\ pc = "waiting"
    /\ LastOutcome = ErrBodyTimeout
    /\ streamingInterval

(* C8: at most one completion request is in flight; a request is issued     *)
(* only when every earlier attempt has failed and the backoff wait started  *)
(* after each of them has elapsed.                                          *)
C8_OneRequestInFlight ==
    /\ [](inflight \in {0, 1})
    /\ [][requests' # requests =>
            /\ inflight = 0
            /\ Len(outcomes) = requests
            /\ \A i \in 1..Len(outcomes) : IsFailure(outcomes[i])
            /\ Len(waits) = requests
            /\ elapsed = Len(waits)]_vars

C8_Witness ==
    /\ op = "callClaude"
    /\ requests = 3
    /\ inflight = 1
    /\ elapsed = 2

(* C9: processOllamaResponse applied twice gives what one application gives. *)
C9_Idempotent ==
    normStage = "twice" => normText = processOllamaResponse(normInput)

(* C10: processOllamaResponse leaves a text that parses as JSON unchanged.  *)
C10_NoOpOnValidJSON ==
    (normStage = "once" /\ ParsesAsJSON(normInput)) => normText = normInput


(* handleStreamingRequest reaches line 381 with the text.                  *)
RunExtractDocument ==
    /\ exPc = "input"
    /\ LET outcome == ExtractDocument(exText, exCount, TxtPrdPath, TxtToday) IN
         /\ exResult' = Delivered(outcome)
         /\ exLog' = outcome.log
    /\ exPc' = "document"
    /\ UNCHANGED <<exText, exCount, exStart, exParent>>

(* generateSubtasks reaches line 675 with the text.                        *)
RunParseSubtasks ==
    /\ exPc = "input"
    /\ LET outcome == parseSubtasksFromText(exText, exStart, exCount, exParent) IN
         /\ exResult' = Delivered(outcome)
         /\ exLog' = outcome.log
    /\ exPc' = "subtasks"
    /\ UNCHANGED <<exText, exCount, exStart, exParent>>

ExtractInit ==
    /\ GatewayIdle
    /\ ResearchIdle
    /\ ClientIdle
    /\ StreamIdle
    /\ NormIdle
    /\ GraphIdle
    /\ ExtractInput

ExtractNext ==
    \/ (RunExtractDocument /\ UNCHANGED <<gatewayVars, streamVars, normVars, graphVars, researchVars, clientVars>>)
    \/ (RunParseSubtasks /\ UNCHANGED <<gatewayVars, streamVars, normVars, graphVars, researchVars, clientVars>>)

SpecExtract == ExtractInit /\ [][ExtractNext]_vars

(***************************************************************************)
(* Properties of the extractors.                                           *)
(***************************************************************************)
IsDocument(v) ==
    /\ v.t = "obj"
    /\ TasksKey \in DOMAIN v.o
    /\ v.o[TasksKey].t = "arr"
    /\ MetadataKey \in DOMAIN v.o
    /\ v.o[MetadataKey].t = "obj"

(* The part of the text between the first "{" and the last "}", when the   *)
(* first comes before the last; the empty text otherwise.                  *)
BraceSlice(text) ==
    IF IndexOf(text, "{") >= 1 /\ LastIndexOf(text, "}") > IndexOf(text, "{")
    THEN SubSeq(text, IndexOf(text, "{"), LastIndexOf(text, "}"))
    ELSE <<>>

(* The part between the first "[" and the last "]", likewise.              *)
BracketSlice(text) ==
    IF IndexOf(text, "[") >= 1 /\ LastIndexOf(text, "]") >= IndexOf(text, "[")
    THEN SubSeq(text, IndexOf(text, "["), LastIndexOf(text, "]"))
    ELSE <<>>

IsPlaceholderTask(v, id) ==
    /\ v.t = "obj"
    /\ GetProp(v, IdKey) = JNum(id)
    /\ GetProp(v, StatusKey) = JStr(TxtPending)
    /\ GetProp(v, DependenciesKey) = JArr(<<>>)
    /\ GetProp(v, DetailsKey) = JStr(TxtTaskDetails)

IsPlaceholderDocument(v, n) ==
    /\ IsDocument(v)
    /\ Len(v.o[TasksKey].a) = n
    /\ \A k \in 1..n : IsPlaceholderTask(v.o[TasksKey].a[k], k)

(* C11: the whole-document extractor returns an object with a tasks        *)
(* sequence and a metadata record, for every text and every count.         *)
C11_DocumentShape ==
    exPc = "document" => IsDocument(exResult)

(* C12 as stated: every text that JSON.parse rejects yields the N          *)
(* placeholder tasks.                                                      *)
C12_FallbackOnInvalidText ==
    (exPc = "document" /\ ~JSONParse(exText).ok)
        => IsPlaceholderDocument(exResult, exCount)

(* C12: when JSON.parse rejects the text and also rejects the part from    *)
(* its first "{" to its last "}" (or there is no such part), the           *)
(* whole-document extractor returns exactly N placeholder tasks, ids 1..N, *)
(* status pending, no dependencies, with the parsing-fallback annotation.  *)
C12_FallbackWhenNothingParses ==
    (exPc = "document" /\ ~JSONParse(exText).ok /\ ~JSONParse(BraceSlice(exText)).ok)
        => IsPlaceholderDocument(exResult, exCount)

C12_Witness ==
    /\ exPc = "document"
    /\ exText = <<"{", "x", "}">>
    /\ exCount = 2
    /\ IsPlaceholderDocument(exResult, 2)

(* What JSON.parse makes of the bracket slice of the text.                 *)
ParsedArray(text) == JSONParse(BracketSlice(text))
ArrayParses(text) == ParsedArray(text).ok
AllRecords(a) == \A i \in 1..Len(a) : a[i].t = "obj"
RecordsParsed(text) == ArrayParses(text) /\ AllRecords(ParsedArray(text).v.a)

IsPlaceholderSubtask(v, id, parent) ==
    /\ v.t = "obj"
    /\ GetProp(v, IdKey) = JNum(id)
    /\ GetProp(v, StatusKey) = JStr(TxtPending)
    /\ GetProp(v, DependenciesKey) = JArr(<<>>)
    /\ GetProp(v, ParentTaskIdKey) = JNum(parent)
    /\ GetProp(v, DetailsKey) = JStr(TxtSubtaskDetails)

IsPlaceholderSubtasks(v, start, n, parent) ==
    /\ v.t = "arr"
    /\ Len(v.a) = n
    /\ \A k \in 1..n : IsPlaceholderSubtask(v.a[k], start + k - 1, parent)

(* C13: when no JSON array can be sliced and parsed from the text,         *)
(* parseSubtasksFromText returns exactly N placeholder subtasks, ids       *)
(* s..s+N-1 in order, status pending, no dependencies, parentTaskId p and  *)
(* the fallback annotation.                                                *)
C13_SubtaskFallback ==
    (exPc = "subtasks" /\ ~ArrayParses(exText))
        => IsPlaceholderSubtasks(exResult, exStart, exCount, exParent)

C13_Witness ==
    /\ exPc = "subtasks"
    /\ exText = <<"]", "x", "[">>
    /\ exStart = 2
    /\ exCount = 2
    /\ IsPlaceholderSubtasks(exResult, 2, 2, exParent)

(* C14: neither extractor throws to its caller, whatever the text and the  *)
(* count, arrays with null or non-record elements included.                *)
C14_NeverRaises ==
    exPc \in {"document", "subtasks"} => exResult.t # "thrown"

C14_Witness ==
    /\ exPc = "subtasks"
    /\ exText = ArrayText(<<RecA, <<"null">>>>)
    /\ exResult.t = "arr"
    /\ \E i \in 1..Len(exLog) : exLog[i].level = "error"

(* What the ladder of the whole-document extractor parses: the text, or    *)
(* its brace slice when the text itself is rejected.                       *)
DocumentParsed(text) ==
    IF JSONParse(text).ok THEN JSONParse(text) ELSE JSONParse(BraceSlice(text))

HasWarning(log) == \E i \in 1..Len(log) : log[i].level = "warn"

(* C15: when extraction succeeds with a number of records other than the   *)
(* requested count, a warning is logged and the parsed records are         *)
(* returned, neither padded nor truncated, in whole-document generation    *)
(* and in subtask expansion.                                               *)
C15_CountMismatchLogged ==
    /\ (/\ exPc = "document"
        /\ DocumentParsed(exText).ok
        /\ IsDocument(DocumentParsed(exText).v)
        /\ Len(DocumentParsed(exText).v.o[TasksKey].a) # exCount)
            => (HasWarning(exLog) /\ exResult = DocumentParsed(exText).v)
    /\ (/\ exPc = "subtasks"
        /\ ArrayParses(exText)
        /\ Len(ParsedArray(exText).v.a) # exCount)
            => (/\ HasWarning(exLog)
                /\ exResult.t = "arr"
                /\ Len(exResult.a) = Len(ParsedArray(exText).v.a))

NormalizedKeys == {IdKey, DependenciesKey, StatusKey, ParentTaskIdKey}

(* The returned record carries every other property of the parsed one.     *)
SameRecord(returned, parsed) ==
    /\ returned.t = "obj"
    /\ \A key \in DOMAIN parsed.o \ NormalizedKeys :
          GetProp(returned, key) = parsed.o[key]

(* C16: a parsed array of k records is returned in its original order with *)
(* ids exactly s, s+1, ..., s+k-1, whatever ids the model returned.         *)
C16_Renumbered ==
    (exPc = "subtasks" /\ RecordsParsed(exText))
        => /\ exResult.t = "arr"
           /\ Len(exResult.a) = Len(ParsedArray(exText).v.a)
           /\ \A i \in 1..Len(exResult.a) :
                 /\ GetProp(exResult.a[i], IdKey) = JNum(exStart + i - 1)
                 /\ SameRecord(exResult.a[i], ParsedArray(exText).v.a[i])

C16_Witness ==
    /\ exPc = "subtasks"
    /\ exText = <<"x">> \o ArrayText(<<RecA, RecB>>)
    /\ exStart = 2
    /\ Len(exResult.a) = 2
    /\ GetProp(exResult.a[1], IdKey) = JNum(2)
    /\ GetProp(exResult.a[1], TitleKey) = JStr(<<"a">>)
    /\ GetProp(exResult.a[2], IdKey) = JNum(3)
    /\ GetProp(exResult.a[2], TitleKey) = JStr(<<"b">>)

(* C17: after normalization every dependency entry of a parsed subtask is  *)
(* an integer, and an absent or malformed dependencies field has become    *)
(* the empty list.                                                         *)
C17_DependenciesAreIntegers ==
    (exPc = "subtasks" /\ RecordsParsed(exText))
        => \A i \in 1..Len(exResult.a) :
              LET before == GetProp(ParsedArray(exText).v.a[i], DependenciesKey)
                  after == GetProp(exResult.a[i], DependenciesKey)
              IN  /\ after.t = "arr"
                  /\ \A j \in 1..Len(after.a) : after.a[j].t = "num"
                  /\ before.t # "arr" => after.a = <<>>

(* C18: every subtask returned by parseSubtasksFromText, parsed or         *)
(* synthesized, has status pending.                                        *)
C18_StatusPending ==
    exPc = "subtasks"
        => /\ exResult.t = "arr"
           /\ \A i \in 1..Len(exResult.a) :
                 GetProp(exResult.a[i], StatusKey) = JStr(TxtPending)

C18_Witness ==
    /\ exPc = "subtasks"
    /\ exText = ArrayText(<<RecB>>)
    /\ GetProp(ParsedArray(exText).v.a[1], StatusKey) = JStr(<<"d","o","n","e">>)
    /\ GetProp(exResult.a[1], TitleKey) = JStr(<<"b">>)
    /\ GetProp(exResult.a[1], StatusKey) = JStr(TxtPending)

(* The entries of the dependencies of a record, none when it is no array.  *)
DependencyEntries(rec) ==
    LET d == GetProp(rec, DependenciesKey) IN
    IF d.t = "arr" THEN {d.a[j] : j \in 1..Len(d.a)} ELSE {}

(* C19: when no parsed record depends on the id it was returned with, no   *)
(* returned subtask has its newly assigned id among its dependencies.      *)
C19_NoSelfReference ==
    (/\ exPc = "subtasks"
     /\ RecordsParsed(exText)
     /\ \A i \in 1..Len(ParsedArray(exText).v.a) :
           LET rec == ParsedArray(exText).v.a[i] IN
           /\ GetProp(rec, IdKey) \notin DependencyEntries(rec)
           /\ \A d \in DependencyEntries(rec) :
                 CoerceDependency(d) # CoerceDependency(GetProp(rec, IdKey)))
        => \A i \in 1..Len(exResult.a) :
              GetProp(exResult.a[i], IdKey) \notin DependencyEntries(exResult.a[i])

(***************************************************************************)
(* Dependency Graph Manager.  Its code (dependency-manager.js) is not part *)
(* of the sources at hand; the operation is modelled from its description: *)
(* addDependency resolves both references, rejects a self-reference,       *)
(* succeeds without change when the edge exists, searches depth-first from *)
(* dependsOnRef along outgoing edges and rejects with CycleError when ref  *)
(* is reachable, and appends the edge otherwise.                           *)
(*                                                                         *)
(* The collection holds the top-level tasks 1..MaxTasks; deps[t] is the    *)
(* ordered dependency list of task t.  References are bare task ids, and   *)
(* MaxTasks + 1 is a reference that does not resolve.                      *)
(***************************************************************************)
MaxTasks == 3

TaskIds == 1..MaxTasks
References == 1..(MaxTasks + 1)

Resolves(ref, collection) == ref \in collection
OutgoingEdges(n, d) == IF n \in DOMAIN d THEN d[n] ELSE <<>>
HasEdge(from, to, d) ==
    \E i \in 1..Len(OutgoingEdges(from, d)) : OutgoingEdges(from, d)[i] = to

(* The depth-first search: the entities visited from the stack.            *)
RECURSIVE DepthFirst(_, _, _)
DepthFirst(stack, visited, d) ==
    IF stack = <<>> THEN visited
    ELSE IF Head(stack) \in visited THEN DepthFirst(Tail(stack), visited, d)
    ELSE DepthFirst(OutgoingEdges(Head(stack), d) \o Tail(stack),
                    visited \cup {Head(stack)}, d)

(* Adding ref -> dependsOnRef would close a cycle.                         *)
WouldCloseCycleDirectOnly(ref, dependsOnRef, d) == HasEdge(dependsOnRef, ref, d)
WouldCloseCycle(ref, dependsOnRef, d) ==
    ref \in DepthFirst(<<dependsOnRef>>, {}, d)

(* addDependency(ref, dependsOnRef): how the call ends and the edges after *)
(* it.                                                                     *)
addDependencyUnchecked(ref, dependsOnRef, collection, d) ==
    IF ~Resolves(ref, collection)
    THEN [result |-> "NotFoundError", deps |-> d]
    ELSE [result |-> "added",
          deps |-> [d EXCEPT ![ref] = Append(d[ref], dependsOnRef)]]
addDependency(ref, dependsOnRef, collection, d) ==
    IF ~Resolves(ref, collection) \/ ~Resolves(dependsOnRef, collection)
    THEN [result |-> "NotFoundError", deps |-> d]
    ELSE IF ref = dependsOnRef
    THEN [result |-> "SelfReferenceError", deps |-> d]
    ELSE IF HasEdge(ref, dependsOnRef, d)
    THEN [result |-> "exists", deps |-> d]
    ELSE IF WouldCloseCycle(ref, dependsOnRef, d)
    THEN [result |-> "CycleError", deps |-> d]
    ELSE [result |-> "added",
          deps |-> [d EXCEPT ![ref] = Append(d[ref], dependsOnRef)]]

(* removeDependency(ref, dependsOnRef): the edge is removed when present;  *)
(* when absent the call succeeds without change and emits a warning.       *)
RECURSIVE WithoutTarget(_, _)
WithoutTarget(list, to) ==
    IF list = <<>> THEN <<>>
    ELSE IF Head(list) = to THEN WithoutTarget(Tail(list), to)
    ELSE <<Head(list)>> \o WithoutTarget(Tail(list), to)

removeDependency(ref, dependsOnRef, collection, d) ==
    IF HasEdge(ref, dependsOnRef, d)
    THEN [result |-> "removed",
          deps |-> [d EXCEPT ![ref] = WithoutTarget(d[ref], dependsOnRef)]]
    ELSE [result |-> "warning: no such dependency", deps |-> d]

(* The entities in ascending id order.                                     *)
RECURSIVE Ascending(_)
Ascending(S) ==
    IF S = {} THEN <<>>
    ELSE LET least == CHOOSE n \in S : \A m \in S : n <= m
         IN  <<least>> \o Ascending(S \ {least})

(* The depth-first traversal of fix(): entities are entered in ascending   *)
(* id order, the edges of an entity are followed in list order, and an     *)
(* edge that leads to an entity still on the traversal stack is a          *)
(* back-edge.  st.back lists the back-edges in the order of discovery.     *)
RECURSIVE VisitEntity(_, _, _), VisitEdges(_, _, _, _)
VisitEntity(n, st, d) ==
    LET entered == [st EXCEPT !.visited = @ \cup {n}, !.stack = @ \cup {n}]
        left == VisitEdges(n, 1, entered, d)
    IN  [left EXCEPT !.stack = @ \ {n}]

VisitEdges(n, i, st, d) ==
    IF i > Len(OutgoingEdges(n, d)) THEN st
    ELSE LET to == OutgoingEdges(n, d)[i] IN
         IF to \in st.stack
         THEN VisitEdges(n, i + 1, [st EXCEPT !.back = Append(@, <<n, to>>)], d)
         ELSE IF to \in st.visited THEN VisitEdges(n, i + 1, st, d)
         ELSE VisitEdges(n, i + 1, VisitEntity(to, st, d), d)

RECURSIVE Traverse(_, _, _)
Traverse(order, st, d) ==
    IF order = <<>> THEN st
    ELSE IF Head(order) \in st.visited THEN Traverse(Tail(order), st, d)
    ELSE Traverse(Tail(order), VisitEntity(Head(order), st, d), d)

BackEdges(collection, d) ==
    Traverse(Ascending(collection), [visited |-> {}, stack |-> {}, back |-> <<>>], d).back

Removal(from, to, reason) == [from |-> from, to |-> to, reason |-> reason]

(* The first pass of fix() over one dependency list: an edge with an       *)
(* unresolved target, a self-reference, or a repetition of an earlier edge *)
(* is dropped; kept is the list so far, first-seen order preserved.        *)
RECURSIVE CleanList(_, _, _, _, _)
CleanList(from, list, collection, kept, removed) ==
    IF list = <<>> THEN [kept |-> kept, removed |-> removed]
    ELSE LET to == Head(list)
             reason == IF ~Resolves(to, collection) THEN "MissingReference"
                       ELSE IF to = from THEN "SelfReference"
                       ELSE IF \E i \in 1..Len(kept) : kept[i] = to THEN "Duplicate"
                       ELSE "keep"
         IN  IF reason = "keep"
             THEN CleanList(from, Tail(list), collection, Append(kept, to), removed)
             ELSE CleanList(from, Tail(list), collection, kept,
                            Append(removed, Removal(from, to, reason)))

RECURSIVE CleanSummary(_, _, _)
CleanSummary(order, collection, d) ==
    IF order = <<>> THEN <<>>
    ELSE CleanList(Head(order), d[Head(order)], collection, <<>>, <<>>).removed
         \o CleanSummary(Tail(order), collection, d)

CleanEdgesNothing(collection, d) == d
CleanEdges(collection, d) ==
    [t \in DOMAIN d |-> CleanList(t, d[t], collection, <<>>, <<>>).kept]

(* The second pass of fix(): every back-edge of the traversal is removed.  *)
RECURSIVE WithoutEdges(_, _)
WithoutEdges(d, edges) ==
    IF edges = <<>> THEN d
    ELSE WithoutEdges([d EXCEPT ![Head(edges)[1]] = WithoutTarget(@, Head(edges)[2])],
                      Tail(edges))

CycleSummary(back) == [i \in 1..Len(back) |-> Removal(back[i][1], back[i][2], "Cycle")]

(* fix(): the edges after the repair and the summary of every removal.     *)
fixReportingOnly(collection, d) ==
    [summary |-> CleanSummary(Ascending(collection), collection, d), deps |-> d]
fix(collection, d) ==
    LET cleaned == CleanEdges(collection, d)
        back == BackEdges(collection, cleaned)
    IN  [summary |-> CleanSummary(Ascending(collection), collection, d)
                       \o CycleSummary(back),
         deps |-> WithoutEdges(cleaned, back)]

(* validate(): the diagnostics of a read-only scan.  A cycle is reported   *)
(* once, as the sequence of its entities starting at the least id.         *)
MissingReferences(collection, d) ==
    UNION {{[kind |-> "MissingReference", from |-> t, ref |-> d[t][i]] :
               i \in {j \in 1..Len(d[t]) : ~Resolves(d[t][j], collection)}} :
           t \in collection}
SelfReferences(collection, d) ==
    {[kind |-> "SelfReference", entity |-> t] : t \in {u \in collection : HasEdge(u, u, d)}}
Cycles(collection, d) ==
    {[kind |-> "Cycle", entities |-> p] :
        p \in {q \in UNION {[1..k -> collection] : k \in 2..Cardinality(collection)} :
                 /\ \A i \in 1..Len(q) : \A j \in 1..Len(q) : q[i] = q[j] => i = j
                 /\ \A i \in 2..Len(q) : q[1] < q[i]
                 /\ \A i \in 1..(Len(q) - 1) : HasEdge(q[i], q[i + 1], d)
                 /\ HasEdge(q[Len(q)], q[1], d)}}

validateRepairing(collection, d) ==
    [diagnostics |-> MissingReferences(collection, d), deps |-> fix(collection, d).deps]
validate(collection, d) ==
    [diagnostics |-> MissingReferences(collection, d)
                       \cup SelfReferences(collection, d)
                       \cup Cycles(collection, d),
     deps |-> d]

GraphLoaded ==
    /\ tasks = TaskIds
    /\ deps = [t \in TaskIds |-> <<>>]
    /\ lastCall = [name |-> "none"]
    /\ lastResult = "none"

AddDependency ==
    \E ref \in References, dependsOnRef \in References :
        LET outcome == addDependency(ref, dependsOnRef, tasks, deps) IN
        /\ deps' = outcome.deps
        /\ lastResult' = outcome.result
        /\ lastCall' = [name |-> "addDependency", ref |-> ref,
                        dependsOnRef |-> dependsOnRef]
        /\ UNCHANGED tasks

RemoveDependency ==
    \E ref \in References, dependsOnRef \in References :
        LET outcome == removeDependency(ref, dependsOnRef, tasks, deps) IN
        /\ deps' = outcome.deps
        /\ lastResult' = outcome.result
        /\ lastCall' = [name |-> "removeDependency"]
        /\ UNCHANGED tasks

Validate ==
    LET outcome == validate(tasks, deps) IN
    /\ deps' = outcome.deps
    /\ lastResult' = [diagnostics |-> outcome.diagnostics]
    /\ lastCall' = [name |-> "validate", before |-> deps, collection |-> tasks]
    /\ UNCHANGED tasks

(* run is 2 when this fix() follows another fix() immediately.             *)
Fix ==
    LET outcome == fix(tasks, deps) IN
    /\ deps' = outcome.deps
    /\ lastResult' = [summary |-> outcome.summary]
    /\ lastCall' = [name |-> "fix", run |-> IF lastCall.name = "fix" THEN 2 ELSE 1,
                    before |-> deps]
    /\ UNCHANGED tasks

GraphInit ==
    /\ GatewayIdle
    /\ ResearchIdle
    /\ ClientIdle
    /\ StreamIdle
    /\ NormIdle
    /\ ExtractIdle
    /\ GraphLoaded

GraphNext ==
    \/ (AddDependency /\ UNCHANGED <<gatewayVars, streamVars, normVars, extractVars, researchVars, clientVars>>)
    \/ (RemoveDependency /\ UNCHANGED <<gatewayVars, streamVars, normVars, extractVars, researchVars, clientVars>>)
    \/ (Validate /\ UNCHANGED <<gatewayVars, streamVars, normVars, extractVars, researchVars, clientVars>>)
    \/ (Fix /\ UNCHANGED <<gatewayVars, streamVars, normVars, extractVars, researchVars, clientVars>>)

SpecGraph == GraphInit /\ [][GraphNext]_vars

(* There is a path of one or more edges from a to b.                       *)
Successors(S, d) == {m \in DOMAIN d : \E n \in S : HasEdge(n, m, d)}
RECURSIVE Closure(_, _)
Closure(S, d) ==
    IF Successors(S, d) \subseteq S THEN S ELSE Closure(S \cup Successors(S, d), d)
PathExists(a, b, d) == b \in Closure(Successors({a}, d), d)

(* C20: a call addDependency(ref, dependsOnRef) made when ref is reachable *)
(* from dependsOnRef along existing edges ends with CycleError and leaves  *)
(* the edges as they were.                                                 *)
C20_CycleRejected ==
    [][(/\ lastCall'.name = "addDependency"
        /\ lastCall'.ref # lastCall'.dependsOnRef
        /\ Resolves(lastCall'.ref, tasks)
        /\ Resolves(lastCall'.dependsOnRef, tasks)
        /\ PathExists(lastCall'.dependsOnRef, lastCall'.ref, deps))
          => (lastResult' = "CycleError" /\ deps' = deps)]_vars

(* Tasks {1,2,3}, edges 2->1, 3->1, 3->2, and addDependency(1,3) has just  *)
(* been rejected.                                                          *)
C20_Witness ==
    /\ tasks = {1, 2, 3}
    /\ deps[1] = <<>>
    /\ deps[2] = <<1>>
    /\ deps[3] = <<1, 2>>
    /\ lastCall = [name |-> "addDependency", ref |-> 1, dependsOnRef |-> 3]
    /\ lastResult = "CycleError"

(***************************************************************************)
(* Collections as the external store may hold them: tasks 1, 2 and 5, and  *)
(* up to MaxEdges dependency edges in any order, among them edges to the   *)
(* non-existent task 99, self-references, repeated edges and cycles.       *)
(***************************************************************************)
MaxEdges == 4

StoredTaskIds == {1, 2, 5}
StoredReferences == StoredTaskIds \cup {99}

RECURSIVE TargetsOf(_, _)
TargetsOf(t, edges) ==
    IF edges = <<>> THEN <<>>
    ELSE IF Head(edges)[1] = t THEN <<Head(edges)[2]>> \o TargetsOf(t, Tail(edges))
    ELSE TargetsOf(t, Tail(edges))

StoredCollections ==
    {[t \in StoredTaskIds |-> TargetsOf(t, edges)] :
        edges \in AllTexts(StoredTaskIds \X StoredReferences, MaxEdges)}

StoreLoaded ==
    /\ tasks = StoredTaskIds
    /\ deps \in StoredCollections
    /\ lastCall = [name |-> "none"]
    /\ lastResult = "none"

RepairInit ==
    /\ GatewayIdle
    /\ ResearchIdle
    /\ ClientIdle
    /\ StreamIdle
    /\ NormIdle
    /\ ExtractIdle
    /\ StoreLoaded

RepairNext ==
    \/ (Validate /\ UNCHANGED <<gatewayVars, streamVars, normVars, extractVars, researchVars, clientVars>>)
    \/ (Fix /\ UNCHANGED <<gatewayVars, streamVars, normVars, extractVars, researchVars, clientVars>>)

SpecRepair == RepairInit /\ [][RepairNext]_vars

(***************************************************************************)
(* Properties of the dependency graph manager.                             *)
(***************************************************************************)
NoSelfReference(collection, d) == \A t \in collection : ~HasEdge(t, t, d)
AllResolve(collection, d) ==
    \A t \in collection : \A i \in 1..Len(d[t]) : Resolves(d[t][i], collection)
Acyclic(collection, d) == \A t \in collection : ~PathExists(t, t, d)
NoRepeatedEdge(collection, d) ==
    \A t \in collection : \A i \in 1..Len(d[t]) : \A j \in 1..Len(d[t]) :
        d[t][i] = d[t][j] => i = j

(* C21: from a collection without self-reference, unresolved reference or  *)
(* cycle, every sequence of addDependency, removeDependency and fix calls  *)
(* leaves a collection without self-reference, unresolved reference or     *)
(* cycle.                                                                  *)
C21_GraphIntegrity ==
    /\ NoSelfReference(tasks, deps)
    /\ AllResolve(tasks, deps)
    /\ Acyclic(tasks, deps)

(* Edges have been added and fix() has run on the result.                  *)
C21_Witness ==
    /\ lastCall.name = "fix"
    /\ deps[3] = <<2>>
    /\ deps[2] = <<1>>
    /\ deps[1] = <<>>

(* C22: fix() run immediately after fix() removes no edge and returns an   *)
(* empty summary.                                                          *)
C22_FixIdempotent ==
    (lastCall.name = "fix" /\ lastCall.run = 2)
        => (deps = lastCall.before /\ lastResult.summary = <<>>)

(* fix() has run twice in a row and left the edges 1 -> 2 and 2 -> 5.      *)
C22_Witness ==
    /\ lastCall.name = "fix"
    /\ lastCall.run = 2
    /\ deps = [t \in StoredTaskIds |-> IF t = 1 THEN <<2>> ELSE IF t = 2 THEN <<5>> ELSE <<>>]

(* C23: validate() leaves the collection and every dependency edge as they *)
(* were, whatever it reports.                                              *)
C23_ValidateReadOnly ==
    lastCall.name = "validate"
        => (deps = lastCall.before /\ tasks = lastCall.collection)

C23_Witness ==
    /\ lastCall.name = "validate"
    /\ deps = [t \in StoredTaskIds |-> IF t = 5 THEN <<99, 5>> ELSE <<>>]
    /\ Cardinality(lastResult.diagnostics) = 2

(* The collection d with the edge 5 -> 99 taken out.                       *)
WithoutDangling(d) == [d EXCEPT ![5] = WithoutTarget(@, 99)]

(* d has the edge 5 -> 99, once, and no other defect.                      *)
OnlyDefectIsDangling(d) ==
    /\ Cardinality({i \in 1..Len(d[5]) : d[5][i] = 99}) = 1
    /\ NoSelfReference(StoredTaskIds, WithoutDangling(d))
    /\ AllResolve(StoredTaskIds, WithoutDangling(d))
    /\ Acyclic(StoredTaskIds, WithoutDangling(d))
    /\ NoRepeatedEdge(StoredTaskIds, WithoutDangling(d))

(* C24: on a collection whose only defect is the edge 5 -> 99, validate()  *)
(* returns exactly one diagnostic, a MissingReference citing 99, and fix() *)
(* removes exactly that edge and lists the removal in its summary.         *)
C24_DanglingReportedThenRepaired ==
    /\ (lastCall.name = "validate" /\ OnlyDefectIsDangling(lastCall.before))
          => lastResult.diagnostics =
                {[kind |-> "MissingReference", from |-> 5, ref |-> 99]}
    /\ (lastCall.name = "fix" /\ OnlyDefectIsDangling(lastCall.before))
          => /\ deps = WithoutDangling(lastCall.before)
             /\ lastResult.summary = <<Removal(5, 99, "MissingReference")>>

C24_Witness ==
    /\ lastCall.name = "fix"
    /\ lastCall.before = [t \in StoredTaskIds |-> IF t = 5 THEN <<1, 99>>
                                                  ELSE IF t = 2 THEN <<1>> ELSE <<>>]
    /\ deps = [t \in StoredTaskIds |-> IF t = 1 THEN <<>> ELSE <<1>>]
    /\ lastResult.summary = <<Removal(5, 99, "MissingReference")>>

(***************************************************************************)
(* Further properties of the gateway.                                      *)
(***************************************************************************)

(* C25: the error a gateway operation surfaces to its caller is the        *)
(* message handleOllamaError derives from the failed attempt.              *)
C25_SurfacedErrorIsClassified ==
    pc = "failed"
        => surfaced = [thrown |-> "userMessage",
                       message |-> handleOllamaError(LastOutcome)]

(***************************************************************************)
(* Further properties of the extractors.                                   *)
(***************************************************************************)
Logged(log, level, what) ==
    \E i \in 1..Len(log) : log[i].level = level /\ log[i].msg.what = what

(* The rungs of the ladder the run went through, read from its log.        *)
DirectParseFailed == Logged(exLog, "debug", "failed to parse response as JSON")
SliceAttempted == Logged(exLog, "debug", "extracted JSON")
FallbackSynthesized == HasWarning(exLog)

(* C26: a text that parses directly is returned as parsed, with no slicing *)
(* and no fallback; slicing is attempted only after the direct parse       *)
(* failed, and returns the sliced parse when it succeeds; placeholders are *)
(* synthesized only when both parses failed or there is no slice.          *)
C26_ResolutionOrder ==
    exPc = "document"
        => /\ JSONParse(exText).ok
                => /\ exResult = JSONParse(exText).v
                   /\ ~DirectParseFailed
                   /\ ~SliceAttempted
                   /\ ~FallbackSynthesized
           /\ SliceAttempted => (~JSONParse(exText).ok /\ DirectParseFailed)
           /\ (~JSONParse(exText).ok /\ JSONParse(BraceSlice(exText)).ok)
                => (exResult = JSONParse(BraceSlice(exText)).v /\ ~FallbackSynthesized)
           /\ FallbackSynthesized
                => (~JSONParse(exText).ok /\ ~JSONParse(BraceSlice(exText)).ok)

(* A bare array of one record: it parses directly, and its brace slice     *)
(* would parse as well.                                                    *)
C26_Witness ==
    /\ exPc = "document"
    /\ exText = ArrayText(<<RecD>>)
    /\ JSONParse(BraceSlice(exText)).ok
    /\ exResult = JSONParse(exText).v
    /\ exLog = <<>>

(***************************************************************************)
(* generateSubtasksWithPerplexity (695-861): the research query, then one  *)
(* completion request whose body is read through getReader(), then         *)
(* parseSubtasksFromText on the assembled text.                            *)
(***************************************************************************)
DefaultNumSubtasks == 3
DefaultNextSubtaskId == 1

(* getPerplexityClient throws when the API key is missing (31-33).         *)
ErrMissingKey ==
    [code |-> "none", type |-> "Error", status |-> 0,
     message |->
        <<"P","E","R","P","L","E","X","I","T","Y","_","A","P","I","_","K",
          "E","Y"," ","e","n","v","i","r","o","n","m","e","n","t"," ","v",
          "a","r","i","a","b","l","e"," ","i","s"," ","m","i","s","s","i",
          "n","g","."," ","S","e","t"," ","i","t"," ","t","o"," ","u","s",
          "e"," ","r","e","s","e","a","r","c","h","-","b","a","c","k","e",
          "d"," ","f","e","a","t","u","r","e","s",".">>]

(* The errors with which the research request (52-55) rejects.             *)
ResearchErrors == {ErrNetwork, ErrNetTimeout}

(* response.body.getReader() on a body that has no getReader (812).        *)
ErrNoReader ==
    [code |-> "none", type |-> "TypeError", status |-> 0,
     message |->
        <<"r","e","s","p","o","n","s","e",".","b","o","d","y",".","g","e",
          "t","R","e","a","d","e","r"," ","i","s"," ","n","o","t"," ","a",
          " ","f","u","n","c","t","i","o","n">>]

(* The bodies of a successful response: one chunk per line, the content of *)
(* a line being empty, plain, or a backslash followed by an apostrophe;    *)
(* and one line that arrives split over two chunks.                        *)
ResearchContents == {<<>>, <<"a">>, <<BS, SQ>>}
ResearchBodies ==
    {[i \in 1..Len(objs) |-> RenderObj(objs[i])] :
        objs \in AllTexts(ResearchContents, MaxObjs)}
    \cup {<<<<"{", "a">>, <<"}", NL>>>>}

(***************************************************************************)
(* The shared Perplexity client (22-42): the module variable `perplexity`, *)
(* null until getPerplexityClient constructs the client.  An instance is   *)
(* identified by its position in `clients`, the list of all instances ever *)
(* constructed; the environment can change between two calls.              *)
(***************************************************************************)
MaxCalls == 4

Keys == {<<>>, <<"k">>, <<"q">>}

TxtPerplexityURL ==
    <<"h","t","t","p","s",":","/","/","a","p","i",".","p","e","r","p","l","e","x","i","t","y",
      ".","a","i">>

(* 36-39: new OpenAI({apiKey, baseURL}).                                   *)
NewClient(key) == [apiKey |-> key, baseURL |-> TxtPerplexityURL]

(* The function without the test of line 30: a client for every call.      *)
getPerplexityClientEager(p, key, cs) ==
    IF key = <<>>
    THEN [threw |-> TRUE, error |-> ErrMissingKey, perplexity |-> p, clients |-> cs,
          value |-> 0]
    ELSE [threw |-> FALSE, perplexity |-> Len(cs) + 1,
          clients |-> Append(cs, NewClient(key)), value |-> Len(cs) + 1]

(* 29-42: p is the module variable, key the environment variable, cs the   *)
(* instances constructed so far.                                           *)
getPerplexityClient(p, key, cs) ==
    IF p = 0
    THEN IF key = <<>>
         THEN [threw |-> TRUE, error |-> ErrMissingKey, perplexity |-> p, clients |-> cs,
               value |-> 0]
         ELSE [threw |-> FALSE, perplexity |-> Len(cs) + 1,
               clients |-> Append(cs, NewClient(key)), value |-> Len(cs) + 1]
    ELSE [threw |-> FALSE, perplexity |-> p, clients |-> cs,
          value |-> p]

(* 695-707, 50, 29-42: the research indicator is started and               *)
(* getPerplexityResearch gets the shared client, constructing it when      *)
(* there is none; without client and key line 32 throws, and the outer     *)
(* catch (857-860) logs and rethrows.  Otherwise the research request is   *)
(* issued.                                                                 *)
ResearchInvoke ==
    /\ rsPc = "idle"
    /\ researchLoadingIndicator' = "started"
    /\ LET r == getPerplexityClient(perplexity, apiKey, clients) IN
         /\ perplexity' = r.perplexity
         /\ clients' = r.clients
         /\ clientCalls' = Append(clientCalls,
                                  [threw |-> r.threw, value |-> r.value, key |-> apiKey,
                                   before |-> perplexity, after |-> r.perplexity])
         /\ IF r.threw
            THEN rsPc' = "thrown" /\ rsThrown' = r.error
            ELSE rsPc' = "researching" /\ UNCHANGED rsThrown
    /\ UNCHANGED <<apiKey, rsLoadingIndicator, rsStreamingInterval, rsMode, rsBody, rsPending,
                   rsResponseText, rsExtractInput, rsResult>>

(* 52-57: the research request rejects; the outer catch (857-860) logs and *)
(* rethrows.                                                               *)
ResearchFails ==
    /\ rsPc = "researching"
    /\ \E e \in ResearchErrors : rsThrown' = e
    /\ rsPc' = "thrown"
    /\ UNCHANGED <<researchLoadingIndicator, rsLoadingIndicator, rsStreamingInterval,
                   rsMode, rsBody, rsPending, rsResponseText, rsExtractInput, rsResult>>

(* 707-782: the research returns, its indicator is stopped, the generation *)
(* indicator and the progress timer are started and the request is issued. *)
ResearchDone ==
    /\ rsPc = "researching"
    /\ researchLoadingIndicator' = "stopped"
    /\ rsLoadingIndicator' = "started"
    /\ rsStreamingInterval' = TRUE
    /\ rsPc' = "fetching"
    /\ UNCHANGED <<rsMode, rsBody, rsPending, rsResponseText, rsExtractInput,
                   rsResult, rsThrown>>

(* 852-859: the inner catch clears the timer, stops the generation         *)
(* indicator and rethrows; the outer catch logs and rethrows.              *)
RsThrow(error) ==
    /\ rsStreamingInterval' = FALSE
    /\ rsLoadingIndicator' = "stopped"
    /\ rsThrown' = error
    /\ rsPc' = "thrown"
    /\ UNCHANGED <<researchLoadingIndicator, rsResponseText, rsExtractInput, rsResult>>

RsFetchRejected ==
    /\ rsPc = "fetching"
    /\ \E e \in FetchErrors : RsThrow(e)
    /\ UNCHANGED <<rsMode, rsBody, rsPending>>

(* 803-809 *)
RsResponseNotOk ==
    /\ rsPc = "fetching"
    /\ \E r \in HttpFailures : RsThrow(ThrownHttp(r))
    /\ UNCHANGED <<rsMode, rsBody, rsPending>>

(* 812: the reader is taken from the body, whatever the body offers.       *)
RsResponseOk ==
    /\ rsPc = "fetching"
    /\ \E m \in Modes, b \in ResearchBodies :
          /\ rsMode' = m
          /\ rsBody' = b
          /\ IF m = "reader"
             THEN /\ rsPending' = b
                  /\ rsPc' = "reading"
                  /\ UNCHANGED <<researchLoadingIndicator, rsLoadingIndicator,
                                 rsStreamingInterval, rsResponseText, rsExtractInput,
                                 rsResult, rsThrown>>
             ELSE /\ RsThrow(ErrNoReader)
                  /\ UNCHANGED rsPending

(* 816-841 *)
RsReadChunk ==
    /\ rsPc = "reading"
    /\ rsPending # <<>>
    /\ rsResponseText' = ReaderStep(rsResponseText, Head(rsPending))
    /\ rsPending' = Tail(rsPending)
    /\ UNCHANGED <<rsPc, researchLoadingIndicator, rsLoadingIndicator, rsStreamingInterval,
                   rsMode, rsBody, rsExtractInput, rsResult, rsThrown>>

(* 817: reader.read() rejects.                                             *)
RsBodyError ==
    /\ rsPc = "reading"
    /\ \E e \in BodyErrors : RsThrow(e)
    /\ UNCHANGED <<rsMode, rsBody, rsPending>>

(* 843-851: the timer is cleared, the indicator stopped and responseText   *)
(* is handed to parseSubtasksFromText.                                     *)
RsBodyEnd ==
    /\ rsPc = "reading"
    /\ rsPending = <<>>
    /\ rsStreamingInterval' = FALSE
    /\ rsLoadingIndicator' = "stopped"
    /\ rsExtractInput' = rsResponseText
    /\ rsResult' = parseSubtasksFromText(Lexemes(rsResponseText), DefaultNextSubtaskId,
                                         DefaultNumSubtasks,
                                         CHOOSE p \in ParentIds : TRUE).value
    /\ rsPc' = "returned"
    /\ UNCHANGED <<researchLoadingIndicator, rsMode, rsBody, rsPending, rsResponseText,
                   rsThrown>>

(* The operation is invoked with the key unset or set, and with no client  *)
(* yet or the client an earlier call constructed.                          *)
ResearchInit ==
    /\ GatewayIdle
    /\ StreamIdle
    /\ NormIdle
    /\ ExtractIdle
    /\ GraphIdle
    /\ ResearchIdle
    /\ apiKey \in Keys
    /\ \E k \in Keys :
          /\ perplexity = IF k = <<>> THEN 0 ELSE 1
          /\ clients = IF k = <<>> THEN <<>> ELSE <<NewClient(k)>>
    /\ clientCalls = <<>>

ResearchNext ==
    \/ (ResearchInvoke /\ UNCHANGED <<gatewayVars, streamVars, normVars, extractVars, graphVars>>)
    \/ (ResearchFails /\ UNCHANGED <<gatewayVars, streamVars, normVars, extractVars, graphVars, clientVars>>)
    \/ (ResearchDone /\ UNCHANGED <<gatewayVars, streamVars, normVars, extractVars, graphVars, clientVars>>)
    \/ (RsFetchRejected /\ UNCHANGED <<gatewayVars, streamVars, normVars, extractVars, graphVars, clientVars>>)
    \/ (RsResponseNotOk /\ UNCHANGED <<gatewayVars, streamVars, normVars, extractVars, graphVars, clientVars>>)
    \/ (RsResponseOk /\ UNCHANGED <<gatewayVars, streamVars, normVars, extractVars, graphVars, clientVars>>)
    \/ (RsReadChunk /\ UNCHANGED <<gatewayVars, streamVars, normVars, extractVars, graphVars, clientVars>>)
    \/ (RsBodyError /\ UNCHANGED <<gatewayVars, streamVars, normVars, extractVars, graphVars, clientVars>>)
    \/ (RsBodyEnd /\ UNCHANGED <<gatewayVars, streamVars, normVars, extractVars, graphVars, clientVars>>)

SpecResearch == ResearchInit /\ [][ResearchNext]_vars

(***************************************************************************)
(* Properties of generateSubtasksWithPerplexity.                           *)
(***************************************************************************)

(* C27: the text the extractor parses is the assembled text after the      *)
(* Response Normalizer has been applied to it.                             *)
C27_NormalizedBeforeExtraction ==
    rsPc = "returned" => rsExtractInput = processOllamaResponse(rsResponseText)

(* C29: when generateSubtasksWithPerplexity has returned or thrown, every  *)
(* indicator it started has been stopped.                                  *)
C29_IndicatorsStopped ==
    rsPc \in {"returned", "thrown"}
        => /\ researchLoadingIndicator # "started"
           /\ rsLoadingIndicator # "started"

(* C30: a successful response whose body offers no incremental reader is   *)
(* assembled and parsed as the buffered branch of the other operations     *)
(* assembles it, and the operation returns.                                *)
C30_BufferedBodyAccepted ==
    (rsPc \in {"returned", "thrown"} /\ rsMode = "buffered")
        => /\ rsPc = "returned"
           /\ rsResponseText = BufferedFinish(<<>>, rsBody)

(***************************************************************************)
(* Extractor: dependencies between the records of one batch.               *)
(***************************************************************************)

(* Record a of the parsed array lists the id record b was returned with.   *)
ListsReturnedId(a, b) ==
    /\ GetProp(b, IdKey).t = "num"
    /\ \E d \in DependencyEntries(a) : CoerceDependency(d) = GetProp(b, IdKey)

(* C28: when a parsed record lists the returned id of another record of    *)
(* the same array among its dependencies, the subtask produced from it     *)
(* lists the id newly assigned to that other record.                       *)
C28_SiblingDependenciesFollowIds ==
    (exPc = "subtasks" /\ RecordsParsed(exText))
        => \A i, j \in 1..Len(ParsedArray(exText).v.a) :
              (i # j /\ ListsReturnedId(ParsedArray(exText).v.a[i],
                                        ParsedArray(exText).v.a[j]))
                  => GetProp(exResult.a[j], IdKey)
                         \in DependencyEntries(exResult.a[i])

(***************************************************************************)
(* Gateway: attempts under retry, and the progress timer.                  *)
(***************************************************************************)

(* C31: the text callClaude normalizes and returns is assembled from the   *)
(* fragments of the final, successful attempt alone; what an attempt that  *)
(* failed in mid-stream had accumulated is no part of it.                  *)
C31_AttemptIsolation ==
    (pc = "done" /\ op = "callClaude")
        => /\ responseText = AssemblyOf(mode, delivered)
           /\ processedText = processOllamaResponse(AssemblyOf(mode, delivered))

C31_Witness ==
    /\ pc = "done"
    /\ op = "callClaude"
    /\ Len(outcomes) = 2
    /\ outcomes[1] = ErrBodyTimeout
    /\ abandoned = <<<<"a">>>>
    /\ delivered = <<RenderObj(<<"a">>), RenderObj(<<"b">>)>>
    /\ processedText = <<"a", "b">>

(***************************************************************************)
(* Calls of getPerplexityClient over a changing environment.                *)
(***************************************************************************)
(* The environment variable is set, changed or removed.                    *)
SetKey ==
    /\ \E k \in Keys \ {apiKey} : apiKey' = k
    /\ UNCHANGED <<perplexity, clients, clientCalls>>

(* One call of getPerplexityClient.                                        *)
GetClient ==
    /\ Len(clientCalls) < MaxCalls
    /\ LET r == getPerplexityClient(perplexity, apiKey, clients) IN
       /\ perplexity' = r.perplexity
       /\ clients' = r.clients
       /\ clientCalls' = Append(clientCalls,
                                [threw |-> r.threw, value |-> r.value, key |-> apiKey,
                                 before |-> perplexity, after |-> r.perplexity])
    /\ UNCHANGED apiKey

ClientInit ==
    /\ GatewayIdle
    /\ StreamIdle
    /\ NormIdle
    /\ ExtractIdle
    /\ GraphIdle
    /\ ResearchIdle
    /\ ClientIdle

ClientNext ==
    \/ (SetKey /\ UNCHANGED <<gatewayVars, streamVars, normVars, extractVars, graphVars, researchVars>>)
    \/ (GetClient /\ UNCHANGED <<gatewayVars, streamVars, normVars, extractVars, graphVars, researchVars>>)

SpecClient == ClientInit /\ [][ClientNext]_vars

(* C32: over any sequence of getPerplexityClient calls at most one client  *)
(* is constructed and every call that returns, returns that instance; a    *)
(* call made while the key is missing and no client exists throws and      *)
(* leaves the variable unset; a call made with the key present returns,    *)
(* constructing the client from that key when none exists.                 *)
C32_ClientConstructedOnce ==
    /\ Len(clients) <= 1
    /\ \A i \in 1..Len(clientCalls) :
          LET c == clientCalls[i] IN
          /\ ~c.threw => (c.value = 1 /\ c.after = 1 /\ perplexity = 1)
          /\ c.threw => (c.key = <<>> /\ c.before = 0 /\ c.after = 0)
          /\ (c.key = <<>> /\ c.before = 0) => c.threw
          /\ c.key # <<>> => ~c.threw
          /\ (c.key # <<>> /\ c.before = 0) => clients = <<NewClient(c.key)>>

C32_Witness ==
    /\ Len(clientCalls) = 4
    /\ clientCalls[1].threw
    /\ ~clientCalls[2].threw /\ clientCalls[2].key = <<"k">> /\ clientCalls[2].value = 1
    /\ ~clientCalls[3].threw /\ clientCalls[3].key = <<>> /\ clientCalls[3].value = 1
    /\ ~clientCalls[4].threw /\ clientCalls[4].key = <<"q">> /\ clientCalls[4].value = 1
    /\ clients = <<NewClient(<<"k">>)>>

(* A step of the timer callback: the dot counter advances while the        *)
(* operation stays suspended where it was.                                 *)
IsTick == pc' = pc /\ dotCount' # dotCount

(* C33: a tick of the progress timer changes the dot counter, which stays  *)
(* within 0..3, and the progress line on the terminal, and nothing else:   *)
(* the accumulated text, the retry count and every other variable of the   *)
(* operation are as before, and the text an operation returns is the       *)
(* normalized assembly of the chunks delivered, whatever ticks there were. *)
C33_TickChangesDisplayOnly ==
    /\ [](dotCount \in 0..(DotModulus - 1) /\ dotsShown \in 0..(DotModulus - 1))
    /\ [](pc = "done" => processedText = processOllamaResponse(AssemblyOf(mode, delivered)))
    /\ [][IsTick => UNCHANGED <<op, pc, retryCount, requests, inflight, waits, elapsed,
                               indicators, timers, streamingInterval, mode, pending,
                               delivered, chunkBuf, responseText, outcomes, processedText,
                               surfaced, abandoned>>]_vars

C33_Witness ==
    /\ pc = "reading"
    /\ responseText = <<"a">>
    /\ pending # <<>>
    /\ dotsShown = 3
    /\ dotCount = 0

(***************************************************************************)
(* Stream assembly: lines that carry no content.                           *)
(***************************************************************************)

(* The lines a mode hands to JSON.parse: the lines of every chunk in the   *)
(* incremental-reader mode, the lines of the whole body in the buffered    *)
(* mode.                                                                   *)
LinesOf(m, chunks) ==
    IF m = "reader"
    THEN Concat([i \in 1..Len(chunks) |-> SplitLines(chunks[i])])
    ELSE SplitLines(Concat(chunks))

(* The message.content of the lines that are an object carrying one, in    *)
(* order; every other line contributes the empty text.                     *)
ContentsOf(lines) ==
    Concat([i \in 1..Len(lines) |->
                IF ParseLine(lines[i]).ok THEN ParseLine(lines[i]).content ELSE <<>>])

(* C34: a line that is not valid JSON, or an object without                *)
(* message.content, adds nothing to the assembled text and does not end    *)
(* the assembly: in either mode the text assembled is the concatenation,   *)
(* in arrival order, of the content of the remaining lines handed to the   *)
(* parser, and in the buffered mode that is the content of all objects of  *)
(* the body.                                                               *)
C34_BadLinesSkipped ==
    sPc = "end"
        => /\ readerText = ContentsOf(LinesOf("reader", bufChunks))
           /\ bufferedText = ContentsOf(LinesOf("buffered", bufChunks))
           /\ bufferedText = ExpectedText(sObjs)

C34_Witness ==
    /\ sPc = "end"
    /\ bufChunks = <<RenderObj(<<"a">>), <<"{", NL>>, RenderObj(<<"b">>)>>
    /\ readerText = <<"a", "b">>
    /\ bufferedText = <<"a", "b">>

====
